---- MODULE Spec2Model ----
(***************************************************************************)
(* TokenWise backend: the upstream rate limiter (RateLimiter in            *)
(* services/solanaService.ts), the WebSocket broadcast, the real-time      *)
(* monitor and the batch syncs (server.ts, controllers/walletController).  *)
(* Times are in milliseconds, as in the source.                            *)
(***************************************************************************)
EXTENDS Integers, Sequences, FiniteSets, TLC

VARIABLES rl, conns, ws, bc, mon, upstream, op, tried, job, syncProgress,
          enh, proto, gw, handler, store, hook, shut

vars ==
    <<rl, conns, ws, bc, mon, upstream, op, tried, job, syncProgress, enh,
      proto, gw, handler, store, hook, shut>>

hubVars == <<conns, ws, bc>>

monVars == <<mon, upstream, op, tried>>

syncVars == <<job, syncProgress>>

\* the state of the parts of the program that the limiter, the hub, the
\* monitor and the syncs above do not touch
otherVars == <<gw, handler, store, hook, shut>>

\* ------------------------------------------------------------------------
\* Bounds of the model
\* ------------------------------------------------------------------------
\* number of rateLimiter.execute calls
MaxCalls == 3

\* granularity of the clock, in ms
TickMs == 50

\* number of WebSocket connections the server accepts
MaxConns == 3

\* number of wallets the database can hold
NumWallets == 2

\* number of startMonitoring and stopMonitoring calls in progress at a time
MaxOps == 2

\* number of connections open while the monitor is exercised
MaxMonitorConns == 1

\* number of account-change subscription ids in use at a time
MaxSubs == 3

\* largest number of signatures getWalletTransactions returns
MaxSignatures == 4

\* length of the longest list of wallets a batch sync runs over
MaxWallets == 6

\* largest batchSize a sync-historical request asks for
MaxBatchSize == 3

\* ------------------------------------------------------------------------
\* RateLimiter (services/solanaService.ts)
\*
\* The code reads the clock only to form Date.now() - this.lastRequestTime
\* and to sleep, so the state keeps that difference (sinceLastRequest, which
\* stops growing at ElapsedCap) and the time each pending sleep still has to
\* run.
\* ------------------------------------------------------------------------
minInterval == 100

maxRetries == 3

ElapsedCap == 2 * minInterval

TaskIds == 1..MaxCalls

NotLooping == 0

Min(a, b) == IF a < b THEN a ELSE b

Max(a, b) == IF a > b THEN a ELSE b

\* What one call of the submitted function fn() ends with: a value, or an
\* error with or without a message (messages are sequences of characters)
Fulfilled == [ok |-> TRUE, hasMessage |-> FALSE, message |-> <<>>]

ErrRateLimit ==
    [ok |-> FALSE, hasMessage |-> TRUE,
     message |-> <<"H", "T", "T", "P", " ", "4", "2", "9">>]

ErrTimeout ==
    [ok |-> FALSE, hasMessage |-> TRUE,
     message |-> <<"t", "i", "m", "e", "o", "u", "t">>]

ErrNoMessage == [ok |-> FALSE, hasMessage |-> FALSE, message |-> <<>>]

Outcomes == {Fulfilled, ErrRateLimit, ErrTimeout, ErrNoMessage}

\* String.prototype.includes
includes(s, pat) ==
    \E i \in 1..(Len(s) - Len(pat) + 1) : SubSeq(s, i, i + Len(pat) - 1) = pat

\* error.message?.includes('429')
IsRateLimitErrorAny(e) == ~e.ok

IsRateLimitError(e) ==
    /\ ~e.ok
    /\ e.hasMessage
    /\ includes(e.message, <<"4", "2", "9">>)

\* the retry condition of the catch block of executeWithRetry
ShouldRetry(e, retries) == IsRateLimitError(e) /\ retries < maxRetries

\* Math.pow(2, retries) * 1000
BackoffDelayLinear(retries) == (retries + 1) * 1000

BackoffDelay(retries) == (2 ^ retries) * 1000

\* how long executeWithRetry sleeps before it calls fn (0: no sleep)
PaceDelayNone(timeSinceLastRequest) == 0

PaceDelay(timeSinceLastRequest) ==
    IF timeSinceLastRequest < minInterval
    THEN minInterval - timeSinceLastRequest
    ELSE 0

\* the early return of processQueue
ReturnsEarlyOnEmptyOnly(processing, queueLen) == queueLen = 0

ProcessQueueReturnsEarly(processing, queueLen) == processing \/ queueLen = 0

\* Array.prototype.shift: the element taken and the array left
pop(q) == [task |-> q[Len(q)], rest |-> SubSeq(q, 1, Len(q) - 1)]

shift(q) == [task |-> Head(q), rest |-> Tail(q)]

NewTask ==
    [pc |-> "new", retries |-> 0, sleep |-> 0, outcomes |-> <<>>,
     backoffs |-> <<>>, result |-> Fulfilled]

\* this.lastRequestTime = Date.now(); return await fn();
Dispatch(s, c) ==
    [s EXCEPT !.sinceLastRequest = 0,
              !.task[c].pc = "inflight",
              !.dispatches = @ + 1,
              !.sinceDispatch = 0]

\* executeWithRetry from its entry to its first suspension
BeginAttempt(s, c) ==
    IF PaceDelay(s.sinceLastRequest) > 0
    THEN [s EXCEPT !.task[c].pc = "sleepMin",
                   !.task[c].sleep = PaceDelay(s.sinceLastRequest)]
    ELSE Dispatch(s, c)

\* RunLoop, leaving the loop after its first task
RunLoopOnce(s, r) ==
    IF Len(s.queue) > 0 /\ s.loop[r] = NotLooping
    THEN BeginAttempt([s EXCEPT !.queue = shift(s.queue).rest,
                                !.loop[r] = shift(s.queue).task],
                      shift(s.queue).task)
    ELSE [s EXCEPT !.processing = FALSE, !.loop[r] = NotLooping]

\* the while loop of processQueue, from its test to its next suspension;
\* r is the execute call whose processQueue invocation runs the loop
RunLoop(s, r) ==
    IF Len(s.queue) > 0
    THEN BeginAttempt([s EXCEPT !.queue = shift(s.queue).rest,
                                !.loop[r] = shift(s.queue).task],
                      shift(s.queue).task)
    ELSE [s EXCEPT !.processing = FALSE, !.loop[r] = NotLooping]

processQueue(s, r) ==
    IF ProcessQueueReturnsEarly(s.processing, Len(s.queue))
    THEN s
    ELSE RunLoop([s EXCEPT !.processing = TRUE], r)

execute(s) ==
    processQueue([s EXCEPT !.n = @ + 1,
                           !.queue = Append(@, s.n + 1),
                           !.task[s.n + 1].pc = "queued"],
                 s.n + 1)

\* fn() settles with outcome out: the rest of executeWithRetry and of the
\* task pushed by execute
Settle(s, c, out) ==
    LET s1 == [s EXCEPT !.task[c].outcomes = Append(@, out)]
    IN  IF out.ok
        THEN [s1 EXCEPT !.task[c].pc = "resolved", !.task[c].result = out]
        ELSE IF ShouldRetry(out, s.task[c].retries)
             THEN [s1 EXCEPT !.task[c].pc = "backoff",
                             !.task[c].sleep = BackoffDelay(s.task[c].retries),
                             !.task[c].backoffs =
                                 Append(@, BackoffDelay(s.task[c].retries))]
             ELSE [s1 EXCEPT !.task[c].pc = "rejected", !.task[c].result = out]

Settled(s, c) == s.task[c].pc \in {"resolved", "rejected"}

\* d ms pass
Elapse(s, d) ==
    [s EXCEPT !.sinceLastRequest = Min(@ + d, ElapsedCap),
              !.sinceDispatch = Min(@ + d, ElapsedCap),
              !.task = [c \in TaskIds |-> [@[c] EXCEPT !.sleep = Max(@ - d, 0)]]]

InitLimiter ==
    [queue |-> <<>>, processing |-> FALSE, sinceLastRequest |-> ElapsedCap,
     task |-> [c \in TaskIds |-> NewTask],
     loop |-> [c \in TaskIds |-> NotLooping],
     n |-> 0, dispatches |-> 0, sinceDispatch |-> ElapsedCap]

\* a caller calls rateLimiter.execute(fn)
Execute ==
    /\ rl.n < MaxCalls
    /\ rl' = execute(rl)
    /\ UNCHANGED <<enh, proto, otherVars, hubVars, monVars, syncVars>>

\* the pacing sleep of task c ends
WakeMin(c) ==
    /\ rl.task[c].pc = "sleepMin"
    /\ rl.task[c].sleep = 0
    /\ rl' = Dispatch(rl, c)
    /\ UNCHANGED <<enh, proto, otherVars, hubVars, monVars, syncVars>>

\* the upstream function of task c settles
FnSettle(c) ==
    /\ rl.task[c].pc = "inflight"
    /\ \E out \in Outcomes : rl' = Settle(rl, c, out)
    /\ UNCHANGED <<enh, proto, otherVars, hubVars, monVars, syncVars>>

\* the backoff sleep of task c ends: executeWithRetry(fn, retries + 1)
WakeBackoff(c) ==
    /\ rl.task[c].pc = "backoff"
    /\ rl.task[c].sleep = 0
    /\ rl' = BeginAttempt([rl EXCEPT !.task[c].retries = @ + 1], c)
    /\ UNCHANGED <<enh, proto, otherVars, hubVars, monVars, syncVars>>

\* `await task()` returns in the processQueue invocation r
LoopResume(r) ==
    /\ rl.loop[r] # NotLooping
    /\ Settled(rl, rl.loop[r])
    /\ rl' = RunLoop(rl, r)
    /\ UNCHANGED <<enh, proto, otherVars, hubVars, monVars, syncVars>>

Tick ==
    /\ rl' = Elapse(rl, TickMs)
    /\ UNCHANGED <<enh, proto, otherVars, hubVars, monVars, syncVars>>

\* ------------------------------------------------------------------------
\* WebSocket connections and broadcastToClients (server.ts)
\*
\* conns is the Set wsConnections in its insertion order (the order forEach
\* visits); connections are numbered in the order the server accepts them.
\* ws[c].sendFails says that ws.send throws on connection c.
\* ------------------------------------------------------------------------
ConnIds == 1..MaxConns

\* no startMonitoring or stopMonitoring call has settled with its caller
\* still to resume: the continuation of the caller is a microtask, which
\* runs before the event loop takes its next event
NoneSettled == \A o \in DOMAIN op : op[o].pc # "settled"

SeqToSet(q) == {q[i] : i \in 1..Len(q)}

\* Set.prototype.delete on the insertion-ordered set
RECURSIVE delete(_, _)
delete(q, c) ==
    IF q = <<>> THEN <<>>
    ELSE IF Head(q) = c THEN Tail(q)
    ELSE <<Head(q)>> \o delete(Tail(q), c)

\* Set.prototype.add
add(q, c) == IF c \in SeqToSet(q) THEN q ELSE Append(q, c)

NoBroadcast ==
    [called |-> FALSE, type |-> "none", before |-> {}, open |-> {},
     failing |-> {}, attempted |-> {},
     delivered |-> {}, clientCount |-> 0, thrown |-> FALSE, logged |-> FALSE,
     after |-> <<>>]

\* the forEach of broadcastToClients over the connections left to visit;
\* b accumulates what the broadcast has done so far
RECURSIVE forEachConnection(_, _, _)
forEachConnection(todo, sockets, b) ==
    IF todo = <<>> THEN b
    ELSE LET c == Head(todo) IN
         IF sockets[c].readyState = "OPEN"
         THEN IF sockets[c].sendFails
              THEN [b EXCEPT !.attempted = @ \cup {c}, !.thrown = TRUE]
              ELSE forEachConnection(Tail(todo), sockets,
                       [b EXCEPT !.attempted = @ \cup {c},
                                 !.delivered = @ \cup {c},
                                 !.clientCount = @ + 1])
         ELSE forEachConnection(Tail(todo), sockets,
                  [b EXCEPT !.after = delete(@, c)])

\* broadcastToClients(message): what it did and the set it leaves
broadcastToClientsUnregisters(registered, sockets, type) ==
    [NoBroadcast EXCEPT !.called = TRUE, !.type = type,
                        !.before = SeqToSet(registered), !.logged = TRUE]

broadcastToClients(registered, sockets, type) ==
    LET b == forEachConnection(registered, sockets,
                 [NoBroadcast EXCEPT !.called = TRUE, !.type = type,
                                     !.before = SeqToSet(registered),
                                     !.open =
                                         {c \in SeqToSet(registered) :
                                             sockets[c].readyState = "OPEN"},
                                     !.failing =
                                         {c \in SeqToSet(registered) :
                                             /\ sockets[c].readyState = "OPEN"
                                             /\ sockets[c].sendFails},
                                     !.after = registered])
    IN  [b EXCEPT !.logged = ~b.thrown]

\* a message the server sends to one connection; every message the server
\* builds has a timestamp field
Reply(type, message) ==
    [type |-> type, message |-> message, timestamp |-> TRUE, lists |-> {}]

\* ws.send on one socket: the message goes out on an OPEN socket, an
\* exception leaves send when the socket is broken, and a socket that is no
\* longer OPEN takes no message
socketSend(sock) ==
    IF sock.readyState # "OPEN" THEN "dropped"
    ELSE IF sock.sendFails THEN "threw"
    ELSE "sent"

\* the asynchronous reply to the request `kind` of connection c is sent on
\* sock. The senders (the then and catch callbacks of the monitoring
\* requests, handleActivityRequest, handleRecentTransactionsRequest) send
\* an error in their catch: when send throws there it throws again, and
\* the rejection is handled by nobody
answer(p, c, kind, reply, sock) ==
    [p EXCEPT !.crashed = @ \/ socketSend(sock) = "threw",
              !.client[c].sent = IF socketSend(sock) = "sent"
                                 THEN <<reply>> ELSE <<>>,
              !.client[c].pending = @ \ {kind}]

\* what the server knows of a connection it has not heard of
NoClient == [sent |-> <<>>, pending |-> {}]

\* wss.on('connection'): the server accepts connection c and sends the
\* welcome message
Connect(c) ==
    /\ NoneSettled
    /\ ws[c].readyState = "NEW"
    /\ \A d \in ConnIds : d < c => ws[d].readyState # "NEW"
    /\ ws' = [ws EXCEPT ![c].readyState = "OPEN"]
    /\ conns' = add(conns, c)
    /\ proto' = [proto EXCEPT !.client[c].sent = <<Reply("connected", "")>>]
    /\ UNCHANGED <<rl, otherVars, enh, bc, monVars, syncVars>>

\* the peer starts closing connection c: no 'close' event yet
BeginClose(c) ==
    /\ NoneSettled
    /\ ws[c].readyState = "OPEN"
    /\ ws' = [ws EXCEPT ![c].readyState = "CLOSING"]
    /\ UNCHANGED <<rl, otherVars, enh, proto, conns, bc, monVars, syncVars>>

\* ws.on('close')
OnClose(c) ==
    /\ NoneSettled
    /\ ws[c].readyState \in {"OPEN", "CLOSING"}
    /\ ws' = [ws EXCEPT ![c].readyState = "CLOSED"]
    /\ conns' = delete(conns, c)
    /\ UNCHANGED <<rl, otherVars, enh, proto, bc, monVars, syncVars>>

\* ws.on('error')
OnError(c) ==
    /\ NoneSettled
    /\ ws[c].readyState = "OPEN"
    /\ ws' = [ws EXCEPT ![c].readyState = "CLOSING"]
    /\ conns' = delete(conns, c)
    /\ UNCHANGED <<rl, otherVars, enh, proto, bc, monVars, syncVars>>

\* from now on ws.send throws on the open connection c
SendBreaks(c) ==
    /\ NoneSettled
    /\ ws[c].readyState = "OPEN"
    /\ ~ws[c].sendFails
    /\ ws' = [ws EXCEPT ![c].sendFails = TRUE]
    /\ UNCHANGED <<rl, otherVars, enh, proto, conns, bc, monVars, syncVars>>

\* some code of the server calls broadcastToClients
Broadcast ==
    /\ NoneSettled
    /\ bc' = broadcastToClients(conns, ws, "event")
    /\ conns' = bc'.after
    /\ UNCHANGED <<rl, otherVars, enh, proto, ws, monVars, syncVars>>

InitHub ==
    /\ conns = <<>>
    /\ ws = [c \in ConnIds |-> [readyState |-> "NEW", sendFails |-> FALSE]]
    /\ bc = NoBroadcast
    /\ proto = [crashed |-> FALSE, received |-> 0,
                client |-> [c \in ConnIds |-> NoClient]]

NextHub ==
    \/ \E c \in ConnIds : Connect(c)
    \/ \E c \in ConnIds : BeginClose(c)
    \/ \E c \in ConnIds : OnClose(c)
    \/ \E c \in ConnIds : OnError(c)
    \/ \E c \in ConnIds : SendBreaks(c)
    \/ Broadcast

\* ------------------------------------------------------------------------
\* RealTimeMonitor (server.ts)
\*
\* mon.subscriptions is the Map this.subscriptions in its insertion order;
\* upstream is the set of account-change listeners open on wsConnection;
\* tried is the set of subscription ids that unsubscribeFromAccountChanges
\* has been called with since onAccountChange handed them out;
\* op[o] is a call of startMonitoring or stopMonitoring.
\* ------------------------------------------------------------------------
Wallets == 1..NumWallets

OpIds == 1..MaxOps

keys(m) == {m[i].wallet : i \in 1..Len(m)}

\* Map.prototype.set: a known key keeps its place
set(m, w, id) ==
    IF w \in keys(m)
    THEN [i \in 1..Len(m) |->
             IF m[i].wallet = w THEN [wallet |-> w, id |-> id] ELSE m[i]]
    ELSE Append(m, [wallet |-> w, id |-> id])

\* getAllWallets orders the wallets by rank
RECURSIVE orderBy(_)
orderBy(S) ==
    IF S = {} THEN <<>>
    ELSE LET m == CHOOSE x \in S : \A y \in S : x <= y
         IN  <<m>> \o orderBy(S \ {m})

\* getStatus()
getStatus(m) ==
    [isMonitoring |-> m.isMonitoring, walletsCount |-> Len(m.subscriptions)]

\* the catch block inside the for loop of startMonitoring: the wallets the
\* loop goes on with after a failed subscription
afterFailureAbort(rest) == <<>>

afterFailure(rest) == rest

SubIds == 1..MaxSubs

\* the ids onAccountChange can return: the upstream never hands out an id
\* that is still open, stored in the map or being unsubscribed
FreeIds(m, up, held) ==
    SubIds \ ({u.id : u \in up} \cup {m[i].id : i \in 1..Len(m)} \cup held)

NewId(m, up, held) ==
    CHOOSE id \in FreeIds(m, up, held) : \A j \in FreeIds(m, up, held) : id <= j

\* the for loop of startMonitoring over the wallets left; st accumulates
\* the map, the upstream listeners and the counters
RECURSIVE subscribeLoop(_, _, _)
subscribeLoop(todo, fails, st) ==
    IF todo = <<>> THEN st
    ELSE IF Head(todo) \in fails
         THEN subscribeLoop(afterFailure(Tail(todo)), fails,
                  [st EXCEPT !.logged = @ + 1])
         ELSE LET id == NewId(st.subscriptions, st.upstream, st.held) IN
              subscribeLoop(Tail(todo), fails,
                  [st EXCEPT !.subscriptions = set(@, Head(todo), id),
                             !.upstream = @ \cup {[id |-> id,
                                                   wallet |-> Head(todo)]},
                             !.held = @ \cup {id},
                             !.subscriptionCount = @ + 1])

\* a call of startMonitoring or stopMonitoring: in progress, or settled
\* with its caller still to resume
NoOp ==
    [kind |-> "none", pc |-> "none", pos |-> 0, cur |-> 0,
     outcome |-> "none", thrownBy |-> "none", wallets |-> {}, failed |-> {},
     logged |-> 0, subscriptionCount |-> 0, requester |-> 0]

\* the ids the stopMonitoring calls in progress are unsubscribing
HeldIds == {op[o].cur : o \in {p \in OpIds : op[p].pc = "unsubscribe"}}

FreeOp == CHOOSE o \in OpIds : op[o].kind = "none"

\* startMonitoring() is called: it suspends in `await getAllWallets()`
StartCall ==
    /\ NoneSettled
    /\ \E o \in OpIds : op[o].kind = "none"
    /\ op' = [op EXCEPT ![FreeOp] = [NoOp EXCEPT !.kind = "start",
                                                 !.pc = "getAllWallets"]]
    /\ UNCHANGED <<rl, otherVars, enh, proto, hubVars, mon, upstream, tried, syncVars>>

\* getAllWallets() rejects: startMonitoring logs and rethrows
StartGetWalletsFails(o) ==
    /\ NoneSettled
    /\ op[o].kind = "start" /\ op[o].pc = "getAllWallets"
    /\ op' = [op EXCEPT ![o].pc = "settled", ![o].outcome = "threw",
                        ![o].thrownBy = "getAllWallets"]
    /\ UNCHANGED <<rl, otherVars, enh, proto, hubVars, mon, upstream, tried, syncVars>>

\* getAllWallets() returns the wallets wl: the rest of startMonitoring,
\* where subscribeToAccountChanges throws for the wallets of fails
StartResume(o, wl, fails) ==
    /\ NoneSettled
    /\ op[o].kind = "start" /\ op[o].pc = "getAllWallets"
    /\ fails \subseteq wl
    /\ Cardinality(wl \ fails)
           <= Cardinality(FreeIds(mon.subscriptions, upstream, HeldIds))
    /\ LET st == subscribeLoop(orderBy(wl), fails,
                      [subscriptions |-> mon.subscriptions,
                       upstream |-> upstream, held |-> HeldIds,
                       logged |-> 0, subscriptionCount |-> 0])
           b == broadcastToClients(conns, ws, "monitoring_started")
       IN  /\ mon' = [subscriptions |-> st.subscriptions, isMonitoring |-> TRUE]
           /\ upstream' = st.upstream
           /\ tried' = tried \ {u.id : u \in st.upstream \ upstream}
           /\ bc' = b
           /\ conns' = b.after
           /\ op' = [op EXCEPT ![o].pc = "settled",
                               ![o].outcome = IF b.thrown THEN "threw"
                                              ELSE "returned",
                               ![o].thrownBy = IF b.thrown THEN "broadcast"
                                               ELSE "none",
                               ![o].wallets = wl,
                               ![o].failed = fails,
                               ![o].logged = st.logged,
                               ![o].subscriptionCount = st.subscriptionCount]
    /\ UNCHANGED <<rl, otherVars, enh, proto, ws, syncVars>>

\* the end of stopMonitoring, after its for loop; clear() empties the map
\* under the iterators of the other stopMonitoring calls
stopFinish(o, requester) ==
    LET b == broadcastToClients(conns, ws, "monitoring_stopped")
    IN  /\ mon' = [subscriptions |-> <<>>, isMonitoring |-> FALSE]
        /\ tried' = {}
        /\ bc' = b
        /\ conns' = b.after
        /\ op' = [p \in OpIds |->
                     IF p = o
                     THEN [NoOp EXCEPT !.kind = "stop", !.pc = "settled",
                                       !.requester = requester,
                                       !.outcome = IF b.thrown THEN "threw"
                                                   ELSE "returned",
                                       !.thrownBy = IF b.thrown
                                                    THEN "broadcast"
                                                    ELSE "none"]
                     ELSE IF op[p].pc = "unsubscribe"
                          THEN [op[p] EXCEPT !.pos = 0]
                          ELSE op[p]]

\* the for loop of stopMonitoring steps to the entry after pos: it awaits
\* the unsubscription of that entry, or leaves the loop
stopStep(o, pos, requester) ==
    IF pos + 1 <= Len(mon.subscriptions)
    THEN /\ op' = [op EXCEPT ![o] =
                      [NoOp EXCEPT !.kind = "stop", !.pc = "unsubscribe",
                                   !.requester = requester,
                                   !.pos = pos + 1,
                                   !.cur = mon.subscriptions[pos + 1].id]]
         /\ tried' = tried \cup {mon.subscriptions[pos + 1].id}
         /\ UNCHANGED <<mon, hubVars>>
    ELSE stopFinish(o, requester)

\* stopMonitoring() is called: it runs to its first await, or to its end
\* when the map is empty
StopCall ==
    /\ NoneSettled
    /\ \E o \in OpIds : op[o].kind = "none"
    /\ stopStep(FreeOp, 0, 0)
    /\ UNCHANGED <<rl, otherVars, enh, proto, ws, upstream, syncVars>>

\* removeAccountChangeListener(cur) settles in stopMonitoring o; when it
\* rejects, the listener stays open and the failure is logged
StopResume(o, ok) ==
    /\ NoneSettled
    /\ op[o].kind = "stop" /\ op[o].pc = "unsubscribe"
    /\ upstream' = IF ok THEN {u \in upstream : u.id # op[o].cur}
                   ELSE upstream
    /\ stopStep(o, op[o].pos, op[o].requester)
    /\ UNCHANGED <<rl, otherVars, enh, proto, ws, syncVars>>

\* settledReply, answering every settled call as a success
settledReplyOptimistic(o) ==
    IF op[o].kind = "start"
    THEN Reply("monitoring_started", "")
    ELSE Reply("monitoring_stopped", "")

\* the message the then or catch callback of a start_monitoring or
\* stop_monitoring request sends for the settled call o
settledReply(o) ==
    IF op[o].kind = "start"
    THEN IF op[o].outcome = "returned"
         THEN Reply("monitoring_started", "")
         ELSE Reply("error", "Failed to start monitoring")
    ELSE IF op[o].outcome = "returned"
         THEN Reply("monitoring_stopped", "")
         ELSE Reply("error", "Failed to stop monitoring")

requestOf(o) ==
    IF op[o].kind = "start" THEN "start_monitoring" ELSE "stop_monitoring"

\* the caller of a settled startMonitoring or stopMonitoring resumes: the
\* REST handler answers its HTTP request, the message handler sends its
\* reply on the connection that made the request
CallerResumes(o) ==
    /\ op[o].pc = "settled"
    /\ op' = [op EXCEPT ![o] = NoOp]
    /\ proto' = IF op[o].requester = 0 THEN proto
                ELSE answer(proto, op[o].requester, requestOf(o),
                            settledReply(o), ws[op[o].requester])
    /\ UNCHANGED <<rl, otherVars, enh, hubVars, mon, upstream, tried, syncVars>>

InitMonitor ==
    /\ mon = [subscriptions |-> <<>>, isMonitoring |-> FALSE]
    /\ upstream = {}
    /\ op = [o \in OpIds |-> NoOp]
    /\ tried = {}

NextMonitor ==
    \/ \E o \in OpIds : CallerResumes(o)
    \/ StartCall
    \/ \E o \in OpIds : StartGetWalletsFails(o)
    \/ \E o \in OpIds, wl \in SUBSET Wallets :
           \E fails \in SUBSET wl : StartResume(o, wl, fails)
    \/ StopCall
    \/ \E o \in OpIds, ok \in BOOLEAN : StopResume(o, ok)
    \/ \E c \in 1..MaxMonitorConns : Connect(c)
    \/ \E c \in 1..MaxMonitorConns : OnClose(c)
    \/ \E c \in 1..MaxMonitorConns : SendBreaks(c)

\* ------------------------------------------------------------------------
\* The message handler of a connection (server.ts, ws.on('message'))
\*
\* An inbound message is the text the client sent: raw.json says what
\* JSON.parse makes of it ("invalid": it throws, "null", "scalar": a number
\* or a string, "object"), and for an object raw.type is its type field
\* ("undefined" when it has none) and raw.walletAddress says whether it
\* has a walletAddress. proto.client[c].sent is what the server sent to
\* connection c the last time it sent or tried to, proto.client[c].pending
\* the requests of c whose reply is still to come, and proto.crashed says
\* that an exception or a rejection was left unhandled.
\* ------------------------------------------------------------------------
SupportedTypes ==
    {"ping", "subscribe", "request_activity", "get_recent_transactions",
     "get_status", "start_monitoring", "stop_monitoring"}

AsyncTypes ==
    {"request_activity", "get_recent_transactions", "start_monitoring",
     "stop_monitoring"}

RawMessages ==
    {[json |-> "invalid", type |-> "undefined", walletAddress |-> FALSE],
     [json |-> "null", type |-> "undefined", walletAddress |-> FALSE],
     [json |-> "scalar", type |-> "undefined", walletAddress |-> FALSE]}
    \cup {[json |-> "object", type |-> t, walletAddress |-> FALSE] :
             t \in SupportedTypes \cup {"bogus", "undefined"}}
    \cup {[json |-> "object", type |-> "request_activity",
           walletAddress |-> TRUE]}

\* JSON.parse(message) and the read of data.type: parse throws on text that
\* is not JSON, and reading a property of null throws
JSONparse(raw) ==
    [threw |-> raw.json = "invalid",
     typeThrows |-> raw.json = "null",
     type |-> IF raw.json = "object" THEN raw.type ELSE "undefined",
     walletAddress |-> raw.json = "object" /\ raw.walletAddress]

\* the default case of the switch
unknownTypeReply ==
    [Reply("error", "Unknown message type") EXCEPT !.lists = SupportedTypes]

invalidFormatReply ==
    Reply("error", "Invalid message format. Please send valid JSON.")

NoReply == Reply("none", "")

\* the try block of the handler: the message it sends at once, and the
\* asynchronous call it starts
tryBlockSilent(data) ==
    [reply |-> NoReply, call |-> "none"]

tryBlock(data) ==
    IF data.type = "ping" THEN [reply |-> Reply("pong", ""), call |-> "none"]
    ELSE IF data.type = "subscribe"
    THEN [reply |-> Reply("subscribed", ""), call |-> "none"]
    ELSE IF data.type = "get_status"
    THEN [reply |-> Reply("status_update", ""), call |-> "none"]
    ELSE IF data.type = "request_activity"
    THEN IF data.walletAddress
         THEN [reply |-> NoReply, call |-> "request_activity"]
         ELSE [reply |-> Reply("error",
                               "walletAddress is required for activity request"),
               call |-> "none"]
    ELSE IF data.type \in AsyncTypes
    THEN [reply |-> NoReply, call |-> data.type]
    ELSE [reply |-> unknownTypeReply, call |-> "none"]

\* the catch block of the handler
catchBlockSilent(sock) ==
    [sent |-> <<>>, unhandled |-> FALSE, call |-> "none"]

catchBlock(sock) ==
    [sent |-> IF socketSend(sock) = "sent" THEN <<invalidFormatReply>>
              ELSE <<>>,
     unhandled |-> socketSend(sock) = "threw",
     call |-> "none"]

\* the handler of one message on the socket sock: what it sends, whether
\* an exception leaves it, and the asynchronous call it makes
onMessage(raw, sock) ==
    LET data == JSONparse(raw)
        t == tryBlock(data)
    IN  IF data.threw \/ data.typeThrows THEN catchBlock(sock)
        ELSE IF t.reply = NoReply
        THEN [sent |-> <<>>, unhandled |-> FALSE, call |-> t.call]
        ELSE IF socketSend(sock) = "threw" THEN catchBlock(sock)
        ELSE [sent |-> IF socketSend(sock) = "sent" THEN <<t.reply>>
                       ELSE <<>>,
              unhandled |-> FALSE, call |-> "none"]

\* number of requests of one connection whose reply is still to come
MaxPending == 1

\* number of messages the server receives in one run
MaxMessages == 2

\* ws.on('message') of connection c with the text raw
Receive(c, raw) ==
    /\ NoneSettled
    /\ ~proto.crashed
    /\ proto.received < MaxMessages
    /\ ws[c].readyState = "OPEN"
    /\ LET r == onMessage(raw, ws[c])
       IN  /\ r.call # "none" =>
                  /\ r.call \notin proto.client[c].pending
                  /\ Cardinality(proto.client[c].pending) < MaxPending
           /\ r.call \in {"start_monitoring", "stop_monitoring"} =>
                  \E o \in OpIds : op[o].kind = "none"
           /\ proto' = [proto EXCEPT
                           !.crashed = r.unhandled,
                           !.received = @ + 1,
                           !.client[c].sent = r.sent,
                           !.client[c].pending =
                               IF r.call = "none" THEN @ ELSE @ \cup {r.call}]
           /\ IF r.call = "start_monitoring"
              THEN /\ op' = [op EXCEPT ![FreeOp] =
                                [NoOp EXCEPT !.kind = "start",
                                             !.pc = "getAllWallets",
                                             !.requester = c]]
                   /\ UNCHANGED <<hubVars, mon, upstream, tried>>
              ELSE IF r.call = "stop_monitoring"
              THEN /\ stopStep(FreeOp, 0, c)
                   /\ UNCHANGED <<ws, upstream>>
              ELSE UNCHANGED <<hubVars, monVars>>
    /\ UNCHANGED <<rl, otherVars, enh, syncVars>>

\* the reply that ends the request `kind` when its query returned (ok) or
\* rejected
dataReply(kind, ok) ==
    IF kind = "request_activity"
    THEN IF ok THEN Reply("wallet_activity", "")
         ELSE Reply("error", "Failed to fetch wallet activity")
    ELSE IF ok THEN Reply("recent_transactions", "")
         ELSE Reply("error", "Failed to fetch recent transactions")

\* the query awaited by handleActivityRequest or
\* handleRecentTransactionsRequest for connection c settles
DataResume(c, kind, ok) ==
    /\ NoneSettled
    /\ ~proto.crashed
    /\ kind \in {"request_activity", "get_recent_transactions"}
    /\ kind \in proto.client[c].pending
    /\ proto' = answer(proto, c, kind, dataReply(kind, ok), ws[c])
    /\ UNCHANGED <<rl, otherVars, enh, hubVars, monVars, syncVars>>

\* number of connections that send messages
MaxProtocolConns == 1

ProtocolConns == 1..MaxProtocolConns

\* the messages that make no call of the monitor
PlainMessages ==
    {raw \in RawMessages :
        raw.type \notin {"start_monitoring", "stop_monitoring"}}

NextProtocol ==
    \/ \E c \in ProtocolConns : Connect(c)
    \/ \E c \in ProtocolConns : BeginClose(c)
    \/ \E c \in ProtocolConns : OnClose(c)
    \/ \E c \in ProtocolConns : SendBreaks(c)
    \/ \E c \in ProtocolConns, raw \in PlainMessages : Receive(c, raw)
    \/ \E c \in ProtocolConns, kind \in AsyncTypes, ok \in BOOLEAN :
           DataResume(c, kind, ok)

\* the requests whose reply comes after an await
Requests == {raw \in RawMessages : raw.type \in AsyncTypes}

NextRequests ==
    \/ \E c \in ProtocolConns : Connect(c)
    \/ \E c \in ProtocolConns : OnClose(c)
    \/ \E c \in ProtocolConns : SendBreaks(c)
    \/ \E c \in ProtocolConns, raw \in Requests : Receive(c, raw)
    \/ \E c \in ProtocolConns, kind \in AsyncTypes, ok \in BOOLEAN :
           DataResume(c, kind, ok)
    \/ \E o \in OpIds : StartGetWalletsFails(o)
    \/ \E o \in OpIds, wl \in {{}, Wallets} :
           \E fails \in {{}, wl} : StartResume(o, wl, fails)
    \/ \E o \in OpIds, ok \in BOOLEAN : StopResume(o, ok)
    \/ \E o \in OpIds : CallerResumes(o)

\* every awaited query and unsubscription settles, and every continuation
\* runs
FairRequests ==
    /\ \A c \in ProtocolConns, kind \in AsyncTypes :
           WF_vars(\E ok \in BOOLEAN : DataResume(c, kind, ok))
    /\ \A o \in OpIds :
           WF_vars(StartGetWalletsFails(o)
                   \/ \E wl \in {{}, Wallets} :
                          \E fails \in {{}, wl} : StartResume(o, wl, fails))
    /\ \A o \in OpIds : WF_vars(\E ok \in BOOLEAN : StopResume(o, ok))
    /\ \A o \in OpIds : WF_vars(CallerResumes(o))

\* ------------------------------------------------------------------------
\* Batch syncs: TransactionService.syncAllWalletTransactions (server.ts) and
\* WalletController.performBulkSync (controllers/walletController.ts)
\*
\* job is one run. The worklist is the wallets 1..job.n (the array index j
\* of the code is wallet j + 1); job.item[k] is the state of the sync of
\* wallet k and job.counted[k] the number of results of wallet k that the
\* run has added to its counters. job.origin is the caller of the run,
\* job.announced the number of sync_completed messages broadcast for it and
\* job.stopAt the number of wallets whose sync had been started when Stop
\* Sync was clicked during a chunk (-1: not clicked). syncProgress is the
\* state of the HistoricalDataManager component (src/unnamed/part_002),
\* whose syncAllHistoricalData runs the same loop in the browser.
\* ------------------------------------------------------------------------
\* const batchSize = 5 of syncAllWalletTransactions
syncAllBatchSize == 5

\* const batchSize = 5 of syncAllHistoricalData
historicalBatchSize == 5

ItemIds == 1..MaxWallets

\* Array.prototype.slice(start, end) on an array of length n, as the
\* sequence of the array indices it takes
RelativeIndex(k, n) == IF k < 0 THEN Max(n + k, 0) ELSE Min(k, n)

sliceShort(start, end, n) ==
    [x \in 1..Max(RelativeIndex(end, n) - 1 - RelativeIndex(start, n), 0) |->
        RelativeIndex(start, n) + x - 1]

slice(start, end, n) ==
    [x \in 1..Max(RelativeIndex(end, n) - RelativeIndex(start, n), 0) |->
        RelativeIndex(start, n) + x - 1]

\* the result of Promise.allSettled for one wallet, as the forEach of the
\* run counts it; a promise of batchPromises never rejects, since the
\* function mapped over the batch catches every error
CountsAsSuccess(kind, status, success) ==
    IF kind = "syncAll"
    THEN IF status = "fulfilled" THEN success ELSE FALSE
    ELSE status = "fulfilled" /\ success

IdleJob ==
    [kind |-> "none", pc |-> "idle", n |-> 0, batchSize |-> 0, i |-> 0,
     batch |-> <<>>, item |-> [k \in ItemIds |-> "todo"],
     counted |-> [k \in ItemIds |-> 0], successCount |-> 0, failedCount |-> 0,
     origin |-> "none", announced |-> 0, stopAt |-> -1]

IdleProgress == [isActive |-> FALSE, stage |-> "idle"]

\* launch, starting the sync of every wallet from the batch on
launchEager(j) ==
    LET batch == slice(j.i, j.i + j.batchSize, j.n)
    IN  [j EXCEPT !.pc = "awaitBatch",
                  !.batch = batch,
                  !.item = [k \in ItemIds |->
                               IF k > j.i /\ k <= j.n
                               THEN "running" ELSE @[k]]]

\* batch.map(async ...): the sync of every wallet of the batch starts
launch(j) ==
    LET batch == slice(j.i, j.i + j.batchSize, j.n)
    IN  [j EXCEPT !.pc = "awaitBatch",
                  !.batch = batch,
                  !.item = [k \in ItemIds |->
                               IF \E x \in 1..Len(batch) : batch[x] + 1 = k
                               THEN "running" ELSE @[k]]]

\* the test of the for loop and what follows it up to the next suspension
loopTest(j) ==
    IF j.i < j.n THEN launch(j) ELSE [j EXCEPT !.pc = "done", !.batch = <<>>]

\* the body of results.forEach(...) for the result of wallet k
countResultSuccessOnly(j, k) ==
    IF CountsAsSuccess(j.kind, "fulfilled", j.item[k] = "ok")
    THEN [j EXCEPT !.successCount = @ + 1, !.counted[k] = @ + 1]
    ELSE j

countResult(j, k) ==
    IF CountsAsSuccess(j.kind, "fulfilled", j.item[k] = "ok")
    THEN [j EXCEPT !.successCount = @ + 1, !.counted[k] = @ + 1]
    ELSE [j EXCEPT !.failedCount = @ + 1, !.counted[k] = @ + 1]

\* results.forEach(...) over the results of the batch, from position x
RECURSIVE tally(_, _)
tally(j, x) ==
    IF x > Len(j.batch) THEN j
    ELSE tally(countResult(j, j.batch[x] + 1), x + 1)

\* the run from the moment Promise.allSettled resolves to its next
\* suspension
afterBatch(j) ==
    LET t == tally(j, 1)
    IN  IF t.i + t.batchSize < t.n
        THEN [t EXCEPT !.pc = "delay"]
        ELSE loopTest([t EXCEPT !.i = @ + t.batchSize])

\* a step of a run takes it to the job j: what the run does when the step
\* ends it. The scheduled task broadcasts sync_completed after
\* syncAllWalletTransactions returns; syncAllHistoricalData marks the
\* progress completed after its loop.
Advance(j) ==
    /\ IF j.pc = "done" /\ j.origin = "cron"
       THEN LET b == broadcastToClients(conns, ws, "sync_completed")
            IN  /\ bc' = b
                /\ conns' = b.after
                /\ job' = [j EXCEPT !.announced = @ + 1]
       ELSE /\ job' = j
            /\ UNCHANGED <<conns, bc>>
    /\ syncProgress' =
           IF j.pc = "done" /\ j.kind = "frontend"
           THEN [isActive |-> FALSE, stage |-> "completed"]
           ELSE syncProgress
    /\ UNCHANGED <<rl, otherVars, enh, proto, ws, monVars>>

\* syncAllWalletTransactions() is called by POST /api/transactions/sync-all: it
\* awaits prisma.wallet.findMany
SyncAllCall ==
    /\ job.pc \in {"idle", "done", "threw"}
    /\ job' = [IdleJob EXCEPT !.kind = "syncAll", !.pc = "findMany",
                              !.batchSize = syncAllBatchSize,
                              !.origin = "request"]
    /\ UNCHANGED <<rl, otherVars, enh, proto, hubVars, monVars, syncProgress>>

\* the scheduled task calls syncAllWalletTransactions()
CronSyncCall ==
    /\ job.pc \in {"idle", "done", "threw"}
    /\ job' = [IdleJob EXCEPT !.kind = "syncAll", !.pc = "findMany",
                              !.batchSize = syncAllBatchSize,
                              !.origin = "cron"]
    /\ UNCHANGED <<rl, otherVars, enh, proto, hubVars, monVars, syncProgress>>

\* findMany rejects: syncAllWalletTransactions logs and rethrows
SyncAllFindFails ==
    /\ job.kind = "syncAll"
    /\ job.pc = "findMany"
    /\ job' = [job EXCEPT !.pc = "threw"]
    /\ UNCHANGED <<rl, otherVars, enh, proto, hubVars, monVars, syncProgress>>

\* findMany returns n active wallets
SyncAllResume(n) ==
    /\ job.kind = "syncAll"
    /\ job.pc = "findMany"
    /\ Advance(loopTest([job EXCEPT !.n = n]))

\* the setImmediate callback of syncHistoricalData calls performBulkSync
\* over n wallets (syncHistoricalData answers 400 for an empty list)
BulkSyncCall(n, batchSize) ==
    /\ job.pc \in {"idle", "done", "threw"}
    /\ n >= 1
    /\ Advance(loopTest([IdleJob EXCEPT !.kind = "bulk", !.n = n,
                                        !.batchSize = batchSize,
                                        !.origin = "request"]))

\* syncAllHistoricalData() is called in the browser (its buttons are
\* disabled while syncProgress.isActive): it awaits apiClient.getAllWallets
HistoricalSyncCall ==
    /\ job.pc \in {"idle", "done", "threw"}
    /\ ~syncProgress.isActive
    /\ job' = [IdleJob EXCEPT !.kind = "frontend", !.pc = "findMany",
                              !.batchSize = historicalBatchSize,
                              !.origin = "browser"]
    /\ UNCHANGED <<rl, otherVars, enh, proto, hubVars, monVars, syncProgress>>

\* getAllWallets rejects or returns no wallet: syncAllHistoricalData sets
\* the progress idle and rethrows
HistoricalSyncFails ==
    /\ job.kind = "frontend"
    /\ job.pc = "findMany"
    /\ job' = [job EXCEPT !.pc = "threw"]
    /\ syncProgress' = IdleProgress
    /\ UNCHANGED <<rl, otherVars, enh, proto, hubVars, monVars>>

\* getAllWallets returns n wallets: the progress becomes active and the
\* loop starts
HistoricalSyncResume(n) ==
    /\ job.kind = "frontend"
    /\ job.pc = "findMany"
    /\ n >= 1
    /\ job' = loopTest([job EXCEPT !.n = n])
    /\ syncProgress' = [isActive |-> TRUE, stage |-> "syncing"]
    /\ UNCHANGED <<rl, otherVars, enh, proto, hubVars, monVars>>

\* the Stop Sync button, shown while syncProgress.isActive: stopSync
stopSync ==
    /\ syncProgress.isActive
    /\ syncProgress' = IdleProgress
    /\ job' = [job EXCEPT !.stopAt =
                  IF job.kind = "frontend" /\ job.pc = "awaitBatch" /\ @ = -1
                  THEN job.i + Len(job.batch) ELSE @]
    /\ UNCHANGED <<rl, otherVars, enh, proto, hubVars, monVars>>

\* the sync of wallet k ends: it returns or throws
ItemSettles(k, ok) ==
    /\ job.pc = "awaitBatch"
    /\ job.item[k] = "running"
    /\ job' = [job EXCEPT !.item[k] = IF ok THEN "ok" ELSE "failed"]
    /\ UNCHANGED <<rl, otherVars, enh, proto, hubVars, monVars, syncProgress>>

\* Promise.allSettled(batchPromises) resolves
BatchSettles ==
    /\ job.pc = "awaitBatch"
    /\ \A x \in 1..Len(job.batch) : job.item[job.batch[x] + 1] # "running"
    /\ Advance(afterBatch(job))

\* the 2000 ms delay between two batches ends
DelayEnds ==
    /\ job.pc = "delay"
    /\ Advance(loopTest([job EXCEPT !.i = @ + job.batchSize]))

InitSync ==
    /\ job = IdleJob
    /\ syncProgress = IdleProgress

\* number of connections open while the syncs are exercised
MaxSyncConns == 1

NextSync ==
    \/ SyncAllCall
    \/ CronSyncCall
    \/ HistoricalSyncCall
    \/ HistoricalSyncFails
    \/ \E n \in 1..MaxWallets : HistoricalSyncResume(n)
    \/ stopSync
    \/ \E c \in 1..MaxSyncConns : Connect(c)
    \/ \E c \in 1..MaxSyncConns : OnClose(c)
    \/ SyncAllFindFails
    \/ \E n \in 0..MaxWallets : SyncAllResume(n)
    \/ \E n \in 1..MaxWallets, b \in 1..MaxBatchSize : BulkSyncCall(n, b)
    \/ \E k \in ItemIds, ok \in BOOLEAN : ItemSettles(k, ok)
    \/ BatchSettles
    \/ DelayEnds

\* the bulk sync of the sync-historical endpoint alone, with every
\* batchSize from 0 up: syncHistoricalData passes the batchSize of the
\* request body on as it is
NextBulk ==
    \/ \E n \in 1..MaxWallets, b \in 0..MaxBatchSize : BulkSyncCall(n, b)
    \/ \E k \in ItemIds, ok \in BOOLEAN : ItemSettles(k, ok)
    \/ BatchSettles
    \/ DelayEnds

\* every per-wallet sync terminates, Promise.allSettled resolves and the
\* timer of the delay fires
FairBulk ==
    /\ \A k \in ItemIds : WF_vars(\E ok \in BOOLEAN : ItemSettles(k, ok))
    /\ WF_vars(BatchSettles)
    /\ WF_vars(DelayEnds)

\* ------------------------------------------------------------------------
\* TransactionService.syncWalletTransactionsEnhanced (server.ts)
\*
\* enh is one call with an onProgress callback: enh.i is the index of the
\* for loop, enh.errors the length of the errors array and enh.progress
\* the sequence of the calls of onProgress, each as <<current, total>>.
\* One step of the loop is one action: its awaits (parseTransaction,
\* storeTransaction, the 200 ms delay after every tenth item) touch no
\* state of the call.
\* ------------------------------------------------------------------------
IdleEnhanced ==
    [pc |-> "idle", total |-> 0, i |-> 0, processedCount |-> 0, errors |-> 0,
     progress |-> <<>>]

\* what one pass of the loop body does with the transaction it parsed:
\* "stored" (parsed and stored), "none" (parseTransaction returned null) or
\* "threw" (parseTransaction or storeTransaction threw)
ItemOutcomes == {"stored", "none", "threw"}

loopBody(e, outcome) ==
    IF outcome = "threw"
    THEN [e EXCEPT !.errors = @ + 1]
    ELSE [e EXCEPT !.processedCount = IF outcome = "stored" THEN @ + 1 ELSE @,
                   !.progress = Append(@, <<e.i + 1, e.total>>)]

\* i++ and the test of the for loop
nextItem(e) ==
    IF e.i + 1 < e.total
    THEN [e EXCEPT !.i = @ + 1]
    ELSE [e EXCEPT !.i = @ + 1, !.pc = "done"]

\* syncWalletTransactionsEnhanced(address, limit, onProgress) is called: it
\* awaits getWalletTransactions
EnhancedCall ==
    /\ enh.pc \in {"idle", "done"}
    /\ enh' = [IdleEnhanced EXCEPT !.pc = "fetch"]
    /\ UNCHANGED <<rl, otherVars, proto, hubVars, monVars, syncVars>>

\* with USE_SAMPLE_DATA the call creates sample transactions instead:
\* createSampleTransactions returns the number it created and onProgress is
\* called once
EnhancedSample(sampleCount, created) ==
    /\ enh.pc \in {"idle", "done"}
    /\ created <= sampleCount
    /\ enh' = [IdleEnhanced EXCEPT !.pc = "done", !.total = sampleCount,
                                   !.processedCount = created,
                                   !.progress = <<<<created, sampleCount>>>>]
    /\ UNCHANGED <<rl, otherVars, proto, hubVars, monVars, syncVars>>

\* getWalletTransactions rejects: the error is pushed and the call returns
EnhancedFetchFails ==
    /\ enh.pc = "fetch"
    /\ enh' = [enh EXCEPT !.pc = "done", !.errors = @ + 1]
    /\ UNCHANGED <<rl, otherVars, proto, hubVars, monVars, syncVars>>

\* getWalletTransactions returns total signatures: onProgress(0, total)
EnhancedFetched(total) ==
    /\ enh.pc = "fetch"
    /\ enh' = [enh EXCEPT !.pc = IF total = 0 THEN "done" ELSE "loop",
                          !.total = total,
                          !.progress = <<<<0, total>>>>]
    /\ UNCHANGED <<rl, otherVars, proto, hubVars, monVars, syncVars>>

\* one pass of the for loop over the signatures
EnhancedItem(outcome) ==
    /\ enh.pc = "loop"
    /\ enh' = nextItem(loopBody(enh, outcome))
    /\ UNCHANGED <<rl, otherVars, proto, hubVars, monVars, syncVars>>

InitEnhanced ==
    /\ enh = IdleEnhanced

NextEnhanced ==
    \/ EnhancedCall
    \/ \E sampleCount \in 0..MaxSignatures, created \in 0..MaxSignatures :
           EnhancedSample(sampleCount, created)
    \/ EnhancedFetchFails
    \/ \E total \in 0..MaxSignatures : EnhancedFetched(total)
    \/ \E outcome \in ItemOutcomes : EnhancedItem(outcome)

\* ------------------------------------------------------------------------
\* SolanaService: the calls to the upstream ledger (solanaService.ts)
\*
\* gw.log is the list of the upstream calls issued so far, each with the
\* number of the dispatch it was issued in: a dispatch is one invocation by
\* the RateLimiter of a function passed to rateLimiter.execute, and a call
\* issued outside of any such function has dispatch 0.
\* ------------------------------------------------------------------------
\* number of upstream calls in one run
MaxUpstreamCalls == 5

\* number of token accounts getProgramAccounts returns
MaxAccounts == 2

\* the methods of SolanaService that hand a function to the limiter
LimitedMethods ==
    {"getWalletTransactions", "parseTransaction", "getTopTokenHolders"}

IdleGateway ==
    [pc |-> "idle", method |-> "none", step |-> 0, dispatch |-> 0,
     dispatches |-> 0, remaining |-> 0, log |-> <<>>]

\* this.connection.x(...) or this.wsConnection.x(...): the upstream call
\* api is issued, inside the dispatch g.dispatch if one is running
issue(g, api) ==
    [g EXCEPT !.log = Append(@, [api |-> api, dispatch |-> g.dispatch])]

\* the first upstream call of the function a method hands to the limiter;
\* getTokenHoldersWithFallback hands over its three methods in turn
firstCall(method, step) ==
    IF method = "getWalletTransactions" THEN "getSignaturesForAddress"
    ELSE IF method = "parseTransaction" THEN "getParsedTransaction"
    ELSE IF step = 1 THEN "getTokenLargestAccounts"
    ELSE IF step = 2 THEN "getTokenSupply"
    ELSE "getProgramAccounts"

\* the function of the running dispatch returns or throws, and so does
\* rateLimiter.execute; getTokenHoldersWithFallback goes on with its next
\* method when the result is empty or the method threw
fnEnds(g, nonEmpty) ==
    IF g.method = "getTopTokenHolders" /\ ~nonEmpty /\ g.step < 3
    THEN [g EXCEPT !.pc = "queued", !.step = @ + 1, !.dispatch = 0,
                   !.remaining = 0]
    ELSE [g EXCEPT !.pc = "idle", !.method = "none", !.step = 0,
                   !.dispatch = 0, !.remaining = 0]

\* subscribeToAccountChanges calls wsConnection.onAccountChange itself
SubscribeToAccountChanges ==
    /\ gw.pc = "idle"
    /\ Len(gw.log) < MaxUpstreamCalls
    /\ gw' = issue(gw, "onAccountChange")
    /\ UNCHANGED <<rl, enh, proto, handler, store, hook, shut, hubVars, monVars, syncVars>>

\* unsubscribeFromAccountChanges calls
\* wsConnection.removeAccountChangeListener itself
UnsubscribeFromAccountChanges ==
    /\ gw.pc = "idle"
    /\ Len(gw.log) < MaxUpstreamCalls
    /\ gw' = issue(gw, "removeAccountChangeListener")
    /\ UNCHANGED <<rl, enh, proto, handler, store, hook, shut, hubVars, monVars, syncVars>>

\* getWalletTransactions, parseTransaction or getTopTokenHolders is called
\* and hands its function to rateLimiter.execute
Submit(method) ==
    /\ gw.pc = "idle"
    /\ Len(gw.log) < MaxUpstreamCalls
    /\ gw' = [gw EXCEPT !.pc = "queued", !.method = method, !.step = 1]
    /\ UNCHANGED <<rl, enh, proto, handler, store, hook, shut, hubVars, monVars, syncVars>>

\* executeWithRetry invokes the function: it runs up to its first await,
\* which is its first upstream call
InvokeFn ==
    /\ gw.pc = "queued"
    /\ Len(gw.log) < MaxUpstreamCalls
    /\ gw' = [issue([gw EXCEPT !.dispatch = gw.dispatches + 1,
                               !.dispatches = @ + 1],
                    firstCall(gw.method, gw.step))
                  EXCEPT !.pc = "awaitCall"]
    /\ UNCHANGED <<rl, enh, proto, handler, store, hook, shut, hubVars, monVars, syncVars>>

\* the first upstream call of the running function settles: it threw (~ok)
\* or returned `count` elements. getTokenHoldersViaLargestAccounts returns
\* [] whatever it got; getTokenHoldersViaProgramAccounts goes on to look up
\* each account it got
CallSettles(ok, count) ==
    /\ gw.pc = "awaitCall"
    /\ gw' = IF gw.method = "getTopTokenHolders" /\ gw.step = 3
                 /\ ok /\ count > 0
              THEN IF Len(gw.log) < MaxUpstreamCalls
                   THEN [issue(gw, "getParsedAccountInfo")
                            EXCEPT !.pc = "awaitAccount", !.remaining = count]
                   ELSE gw
              ELSE fnEnds(gw, ok /\ count > 0 /\ gw.step # 2)
    /\ gw' # gw
    /\ UNCHANGED <<rl, enh, proto, handler, store, hook, shut, hubVars, monVars, syncVars>>

\* a getParsedAccountInfo of getTokenHoldersViaProgramAccounts settles; a
\* failure is skipped, and the loop goes on with the next account
AccountSettles(ok) ==
    /\ gw.pc = "awaitAccount"
    /\ IF gw.remaining > 1
       THEN /\ Len(gw.log) < MaxUpstreamCalls
            /\ gw' = [issue(gw, "getParsedAccountInfo")
                         EXCEPT !.remaining = @ - 1]
       ELSE gw' = fnEnds(gw, TRUE)
    /\ UNCHANGED <<rl, enh, proto, handler, store, hook, shut, hubVars, monVars, syncVars>>

InitGateway ==
    /\ gw = IdleGateway

NextGateway ==
    \/ SubscribeToAccountChanges
    \/ UnsubscribeFromAccountChanges
    \/ \E method \in LimitedMethods : Submit(method)
    \/ InvokeFn
    \/ \E ok \in BOOLEAN, count \in 0..MaxAccounts : CallSettles(ok, count)
    \/ \E ok \in BOOLEAN : AccountSettles(ok)

\* ------------------------------------------------------------------------
\* RealTimeMonitor.handleAccountChange (server.ts)
\*
\* handler[h] is one run of handleAccountChange, started by the callback
\* startMonitoring gave to onAccountChange for a wallet: synced says that
\* its syncWalletTransactions returned, published that it broadcast
\* wallet_activity, logged that its catch block logged an error.
\* ------------------------------------------------------------------------
\* number of runs of handleAccountChange in progress at a time
MaxHandlers == 1

HandlerIds == 1..MaxHandlers

NoHandler ==
    [pc |-> "none", wallet |-> 0, synced |-> FALSE, published |-> FALSE,
     logged |-> FALSE, outcome |-> "none"]

\* the catch block of handleAccountChange: the error is logged and the
\* promise of the run resolves
caught(hd) == [hd EXCEPT !.pc = "done", !.logged = TRUE,
                         !.outcome = "returned"]

\* afterSync, going on to the query whatever the sync did
afterSyncAlways(hd, ok) == [hd EXCEPT !.pc = "query", !.synced = ok]

\* `await transactionService.syncWalletTransactions(walletAddress, 5)`
\* settles
afterSync(hd, ok) ==
    IF ok THEN [hd EXCEPT !.pc = "query", !.synced = TRUE] ELSE caught(hd)

\* the upstream notifies the listener u of an account change: the callback
\* calls handleAccountChange for the wallet it was made for, which
\* suspends in the sync of that wallet
OnAccountChange(h, u) ==
    /\ NoneSettled
    /\ handler[h].pc \in {"none", "done"}
    /\ u \in upstream
    /\ handler' = [handler EXCEPT ![h] = [NoHandler EXCEPT !.pc = "sync",
                                                          !.wallet = u.wallet]]
    /\ UNCHANGED <<rl, enh, proto, gw, store, hook, shut, hubVars, monVars, syncVars>>

\* the sync of run h returns (ok) or throws
SyncSettles(h, ok) ==
    /\ NoneSettled
    /\ handler[h].pc = "sync"
    /\ handler' = [handler EXCEPT ![h] = afterSync(@, ok)]
    /\ UNCHANGED <<rl, enh, proto, gw, store, hook, shut, hubVars, monVars, syncVars>>

\* `await transactionService.getTransactions(...)` of run h settles: when
\* it returns, the run broadcasts wallet_activity, inside the try block
QuerySettles(h, ok) ==
    /\ NoneSettled
    /\ handler[h].pc = "query"
    /\ IF ok
       THEN LET b == broadcastToClients(conns, ws, "wallet_activity")
            IN  /\ bc' = b
                /\ conns' = b.after
                /\ handler' = [handler EXCEPT ![h] =
                                  IF b.thrown THEN caught(@)
                                  ELSE [@ EXCEPT !.pc = "done",
                                                 !.published = TRUE,
                                                 !.outcome = "returned"]]
       ELSE /\ handler' = [handler EXCEPT ![h] = caught(@)]
            /\ UNCHANGED <<conns, bc>>
    /\ UNCHANGED <<rl, enh, proto, gw, store, hook, shut, ws, monVars, syncVars>>

InitHandlers ==
    /\ handler = [h \in HandlerIds |-> NoHandler]

\* startMonitoring() is called while no other call of the monitor is in
\* progress
StartAlone ==
    /\ \A o \in OpIds : op[o].kind = "none"
    /\ StartCall

\* stopMonitoring() is called while no other call of the monitor is in
\* progress
StopAlone ==
    /\ \A o \in OpIds : op[o].kind = "none"
    /\ StopCall

NextActivity ==
    \/ \E o \in OpIds : CallerResumes(o)
    \/ StartAlone
    \/ \E o \in OpIds, wl \in SUBSET Wallets :
           \E fails \in SUBSET wl : StartResume(o, wl, fails)
    \/ StopAlone
    \/ \E o \in OpIds, ok \in BOOLEAN : StopResume(o, ok)
    \/ \E c \in 1..MaxMonitorConns : Connect(c)
    \/ \E c \in 1..MaxMonitorConns : OnClose(c)
    \/ \E h \in HandlerIds, u \in [id : SubIds, wallet : Wallets] :
           OnAccountChange(h, u)
    \/ \E h \in HandlerIds, ok \in BOOLEAN : SyncSettles(h, ok)
    \/ \E h \in HandlerIds, ok \in BOOLEAN : QuerySettles(h, ok)

\* ------------------------------------------------------------------------
\* TransactionService.storeTransaction (server.ts)
\*
\* store.rows[sig] is the number of rows of the table transactions with
\* the signature sig; the table has a unique index on signature, so a
\* create for a signature that has a row is rejected by the database.
\* store.call[k] is one call of storeTransaction.
\* ------------------------------------------------------------------------
\* number of storeTransaction calls in progress at a time
MaxStoreCalls == 2

\* number of transaction signatures
NumSignatures == 2

\* WebSockets the hook may create
MaxSockets == 3

\* the option reconnectAttempts (5 by default)
ReconnectAttempts == 2

StoreCallIds == 1..MaxStoreCalls

Signatures == 1..NumSignatures

NoStoreCall ==
    [pc |-> "none", signature |-> 0, outcome |-> "none", thrownBy |-> "none",
     created |-> FALSE]

\* the catch block of storeTransaction logs and rethrows
storeThrows(call, by) ==
    [call EXCEPT !.pc = "settled", !.outcome = "threw", !.thrownBy = by]

\* prisma.transaction.create on the rows of the table: the unique index
\* transactions_signature_key rejects a second row of a signature
create(rows, sig) ==
    IF rows[sig] >= 1
    THEN [ok |-> FALSE, rows |-> rows]
    ELSE [ok |-> TRUE, rows |-> [rows EXCEPT ![sig] = @ + 1]]

\* storeTransaction(transactionInfo) is called for the signature sig: it
\* suspends in prisma.wallet.findUnique
StoreCall(k, sig) ==
    /\ store.call[k].pc \in {"none", "settled"}
    /\ store' = [store EXCEPT !.call[k] =
                    [NoStoreCall EXCEPT !.pc = "findWallet",
                                        !.signature = sig]]
    /\ UNCHANGED <<rl, enh, proto, gw, handler, hook, shut, hubVars, monVars, syncVars>>

\* prisma.wallet.findUnique returns the wallet or null
WalletLooked(k, found) ==
    /\ store.call[k].pc = "findWallet"
    /\ store' = [store EXCEPT !.call[k] =
                    IF found THEN [@ EXCEPT !.pc = "findTransaction"]
                    ELSE storeThrows(@, "wallet")]
    /\ UNCHANGED <<rl, enh, proto, gw, handler, hook, shut, hubVars, monVars, syncVars>>

\* prisma.transaction.findUnique returns: the call returns the row when
\* there is one, and goes on to create it when there is none
TransactionLooked(k) ==
    /\ store.call[k].pc = "findTransaction"
    /\ store' = [store EXCEPT !.call[k] =
                    IF store.rows[store.call[k].signature] >= 1
                    THEN [@ EXCEPT !.pc = "settled", !.outcome = "returned"]
                    ELSE [@ EXCEPT !.pc = "create"]]
    /\ UNCHANGED <<rl, enh, proto, gw, handler, hook, shut, hubVars, monVars, syncVars>>

\* prisma.transaction.create settles
CreateSettles(k) ==
    /\ store.call[k].pc = "create"
    /\ LET c == create(store.rows, store.call[k].signature)
       IN  store' = [store EXCEPT
                        !.rows = c.rows,
                        !.call[k] =
                            IF c.ok
                            THEN [@ EXCEPT !.pc = "settled",
                                           !.outcome = "returned",
                                           !.created = TRUE]
                            ELSE storeThrows(@, "unique")]
    /\ UNCHANGED <<rl, enh, proto, gw, handler, hook, shut, hubVars, monVars, syncVars>>

InitStore ==
    /\ store = [rows |-> [sig \in Signatures |-> 0],
                call |-> [k \in StoreCallIds |-> NoStoreCall]]

NextStore ==
    \/ \E k \in StoreCallIds, sig \in Signatures : StoreCall(k, sig)
    \/ \E k \in StoreCallIds, found \in BOOLEAN : WalletLooked(k, found)
    \/ \E k \in StoreCallIds : TransactionLooked(k)
    \/ \E k \in StoreCallIds : CreateSettles(k)

\* ------------------------------------------------------------------------
\* The client hook useWebSocket (frontend/app/hooks/useWebSocket.ts)
\*
\* hook.sock[s] is the readyState of the s-th WebSocket the hook created
\* ("none" before it exists), hook.current is ws.current (NoSocket for
\* null), hook.pending holds the timeouts that are set and have not fired
\* (a timeout is named after the socket whose close event set it),
\* hook.timerRef is reconnectTimer.current (NoSocket for null),
\* hook.effect tells whether the connection effect is active (the component
\* is mounted), and hook.quiet records that disconnect() was called on the
\* mounted component and connect() has not been called by the component
\* since.

SocketIds == 1..MaxSockets

NoSocket == 0

\* ws.current?.readyState === WebSocket.OPEN
currentOpen(h) == h.current # NoSocket /\ h.sock[h.current] = "open"

\* connect() either returns at once or creates the next WebSocket
CanConnect(h) == currentOpen(h) \/ h.created < MaxSockets

\* connect(): nothing when the current socket is open; otherwise a new
\* WebSocket replaces ws.current (the one it replaces is not closed and
\* keeps its handlers)
connect(h) ==
    IF currentOpen(h) THEN h
    ELSE [h EXCEPT !.sock[h.created + 1] = "connecting",
                   !.current = h.created + 1,
                   !.created = h.created + 1]

\* disconnect(): clears the timeout reconnectTimer.current refers to,
\* closes ws.current and forgets it, resets reconnectCount
disconnect(h) ==
    [h EXCEPT !.pending = IF h.timerRef # NoSocket
                          THEN @ \ {h.timerRef} ELSE @,
              !.timerRef = NoSocket,
              !.sock = IF h.current # NoSocket
                          /\ h.sock[h.current] \in {"connecting", "open"}
                       THEN [@ EXCEPT ![h.current] = "closing"]
                       ELSE @,
              !.current = NoSocket,
              !.reconnectCount = 0]

\* the body of ws.onclose after the mounted check: an automatic reconnect
\* is scheduled while reconnectCount is below reconnectAttempts
onclose(h, s) ==
    IF h.reconnectCount < ReconnectAttempts
    THEN [h EXCEPT !.reconnectCount = @ + 1,
                   !.pending = @ \cup {s},
                   !.timerRef = s]
    ELSE h

\* the connection effect runs: mountedRef.current = true; connect()
Mount ==
    /\ ~hook.effect
    /\ CanConnect(hook)
    /\ hook' = [connect([hook EXCEPT !.mounted = TRUE])
                   EXCEPT !.effect = TRUE, !.quiet = FALSE]
    /\ UNCHANGED <<rl, enh, proto, gw, handler, store, shut, hubVars, monVars, syncVars>>

\* the cleanup of the effect: mountedRef.current = false; disconnect()
Unmount ==
    /\ hook.effect
    /\ hook' = [disconnect([hook EXCEPT !.mounted = FALSE])
                   EXCEPT !.effect = FALSE]
    /\ UNCHANGED <<rl, enh, proto, gw, handler, store, shut, hubVars, monVars, syncVars>>

\* the component calls the connect() the hook returned
HookConnect ==
    /\ hook.effect
    /\ CanConnect(hook)
    /\ hook' = [connect(hook) EXCEPT !.quiet = FALSE]
    /\ UNCHANGED <<rl, enh, proto, gw, handler, store, shut, hubVars, monVars, syncVars>>

\* the component calls the disconnect() the hook returned
HookDisconnect ==
    /\ hook.effect
    /\ hook' = [disconnect(hook) EXCEPT !.quiet = TRUE]
    /\ UNCHANGED <<rl, enh, proto, gw, handler, store, shut, hubVars, monVars, syncVars>>

\* the open event of socket s: ws.onopen
OnOpenEvent(s) ==
    /\ hook.sock[s] = "connecting"
    /\ hook' = [hook EXCEPT !.sock[s] = "open",
                            !.reconnectCount =
                                IF hook.mounted THEN 0 ELSE @]
    /\ UNCHANGED <<rl, enh, proto, gw, handler, store, shut, hubVars, monVars, syncVars>>

\* the close event of socket s (the connection failed, was lost, or was
\* closed by close()): ws.onclose
OnCloseEvent(s) ==
    /\ hook.sock[s] \in {"connecting", "open", "closing"}
    /\ hook' = IF hook.mounted
               THEN onclose([hook EXCEPT !.sock[s] = "closed"], s)
               ELSE [hook EXCEPT !.sock[s] = "closed"]
    /\ UNCHANGED <<rl, enh, proto, gw, handler, store, shut, hubVars, monVars, syncVars>>

\* the timeout set by the close event of socket t fires: connect() when
\* still mounted
TimerFires(t) ==
    /\ t \in hook.pending
    /\ hook.mounted => CanConnect(hook)
    /\ hook' = IF hook.mounted
               THEN connect([hook EXCEPT !.pending = @ \ {t}])
               ELSE [hook EXCEPT !.pending = @ \ {t}]
    /\ UNCHANGED <<rl, enh, proto, gw, handler, store, shut, hubVars, monVars, syncVars>>

InitHook ==
    /\ hook = [mounted |-> TRUE,
               effect |-> FALSE,
               sock |-> [s \in SocketIds |-> "none"],
               current |-> NoSocket,
               created |-> 0,
               reconnectCount |-> 0,
               pending |-> {},
               timerRef |-> NoSocket,
               quiet |-> FALSE]

NextHook ==
    \/ Mount
    \/ Unmount
    \/ HookConnect
    \/ HookDisconnect
    \/ \E s \in SocketIds : OnOpenEvent(s)
    \/ \E s \in SocketIds : OnCloseEvent(s)
    \/ \E t \in SocketIds : TimerFires(t)

\* ------------------------------------------------------------------------
\* Shutdown on SIGINT or SIGTERM (server.ts gracefulShutdown, and the
\* handlers the DatabaseConfig constructor registers in config/database.ts)
\*
\* database.ts is imported at the top of server.ts, so for either signal
\* its handler is registered before gracefulShutdown and runs first; both
\* handlers run to their first await within the signal's event.
\* shut.dbHandler and shut.graceful are the positions of the two handlers,
\* shut.stopOp is the stopMonitoring call gracefulShutdown awaits,
\* shut.db is the state of the Prisma connection, shut.exited and
\* shut.code record process.exit.

Signals == {"SIGINT", "SIGTERM"}

InitShutdown ==
    /\ shut = [signal |-> "none", dbHandler |-> "idle", graceful |-> "idle",
               stopOp |-> 0, db |-> "connected", exited |-> FALSE,
               code |-> 0]

\* the process has not called process.exit
Running == ~shut.exited

\* prisma.$disconnect() is called
startDisconnect(db) == IF db = "connected" THEN "disconnecting" ELSE db

\* process.exit(code)
exit(s, code) == [s EXCEPT !.exited = TRUE, !.code = code]

\* the signal sig is delivered: the handler of database.ts calls
\* prisma.$disconnect() and suspends; then gracefulShutdown calls
\* stopMonitoring(), which runs to its first await or to its end, and
\* suspends
Signal(sig) ==
    /\ Running
    /\ shut.signal = "none"
    /\ NoneSettled
    /\ \E o \in OpIds : op[o].kind = "none"
    /\ shut' = [shut EXCEPT !.signal = sig,
                            !.dbHandler = "disconnect",
                            !.db = startDisconnect(@),
                            !.graceful = "stopMonitoring",
                            !.stopOp = FreeOp]
    /\ stopStep(FreeOp, 0, 0)
    /\ UNCHANGED <<rl, enh, proto, gw, handler, store, hook, ws, upstream, syncVars>>

\* the $disconnect() of the database.ts handler settles: process.exit(0)
\* when it resolved; when it rejected, the async handler's promise rejects
\* with nothing to handle it, which ends the process with code 1 or only
\* warns, depending on the runtime's unhandled-rejections mode
DatabaseHandlerResumes(outcome) ==
    /\ Running
    /\ NoneSettled
    /\ shut.dbHandler = "disconnect"
    /\ shut' = IF outcome = "resolved"
               THEN exit([shut EXCEPT !.dbHandler = "done",
                                      !.db = "disconnected"], 0)
               ELSE IF outcome = "rejectedFatal"
               THEN exit([shut EXCEPT !.dbHandler = "done"], 1)
               ELSE [shut EXCEPT !.dbHandler = "done"]
    /\ UNCHANGED <<rl, enh, proto, gw, handler, store, hook, hubVars, monVars, syncVars>>

\* the stopMonitoring() gracefulShutdown awaits has settled:
\* gracefulShutdown calls databaseConfig.disconnect(), or logs and calls
\* process.exit(1) when stopMonitoring threw
GracefulResumes ==
    /\ Running
    /\ shut.graceful = "stopMonitoring"
    /\ op[shut.stopOp].pc = "settled"
    /\ op' = [op EXCEPT ![shut.stopOp] = NoOp]
    /\ shut' = IF op[shut.stopOp].outcome = "returned"
               THEN [shut EXCEPT !.graceful = "disconnect",
                                 !.db = startDisconnect(@)]
               ELSE exit([shut EXCEPT !.graceful = "done"], 1)
    /\ UNCHANGED <<rl, enh, proto, gw, handler, store, hook, hubVars, mon, upstream, tried, syncVars>>

\* databaseConfig.disconnect() settles: gracefulShutdown calls
\* server.close, or logs and calls process.exit(1) when it threw
GracefulDisconnected(ok) ==
    /\ Running
    /\ NoneSettled
    /\ shut.graceful = "disconnect"
    /\ shut' = IF ok
               THEN [shut EXCEPT !.graceful = "close",
                                 !.db = "disconnected"]
               ELSE exit([shut EXCEPT !.graceful = "done"], 1)
    /\ UNCHANGED <<rl, enh, proto, gw, handler, store, hook, hubVars, monVars, syncVars>>

\* the callback of server.close runs once the server's connections have
\* ended: process.exit(0)
ServerClosed ==
    /\ Running
    /\ NoneSettled
    /\ shut.graceful = "close"
    /\ shut' = exit([shut EXCEPT !.graceful = "done"], 0)
    /\ UNCHANGED <<rl, enh, proto, gw, handler, store, hook, hubVars, monVars, syncVars>>

\* the monitor of a running process: startMonitoring, one call at a time
RunningStart ==
    /\ Running
    /\ StartAlone

RunningStartResume(o, wl, fails) ==
    /\ Running
    /\ StartResume(o, wl, fails)

\* a removeAccountChangeListener settles in a running process
RunningStopResume(o, ok) ==
    /\ Running
    /\ StopResume(o, ok)

\* the REST or message handler that called the monitor resumes (the call
\* gracefulShutdown made resumes in GracefulResumes)
RunningCallerResumes(o) ==
    /\ Running
    /\ o # shut.stopOp
    /\ CallerResumes(o)

NextShutdown ==
    \/ \E sig \in Signals : Signal(sig)
    \/ \E outcome \in {"resolved", "rejectedFatal", "rejectedWarned"} :
           DatabaseHandlerResumes(outcome)
    \/ GracefulResumes
    \/ \E ok \in BOOLEAN : GracefulDisconnected(ok)
    \/ ServerClosed
    \/ RunningStart
    \/ \E o \in OpIds, wl \in SUBSET Wallets :
           \E fails \in SUBSET wl : RunningStartResume(o, wl, fails)
    \/ \E o \in OpIds, ok \in BOOLEAN : RunningStopResume(o, ok)
    \/ \E o \in OpIds : RunningCallerResumes(o)

InitAll ==
    /\ rl = InitLimiter
    /\ InitHub
    /\ InitMonitor
    /\ InitSync
    /\ InitEnhanced
    /\ InitGateway
    /\ InitHandlers
    /\ InitStore
    /\ InitHook
    /\ InitShutdown

SpecShutdown == InitAll /\ [][NextShutdown]_vars

SpecHook == InitAll /\ [][NextHook]_vars

SpecStore == InitAll /\ [][NextStore]_vars

SpecActivity == InitAll /\ [][NextActivity]_vars

SpecGateway == InitAll /\ [][NextGateway]_vars

SpecEnhanced == InitAll /\ [][NextEnhanced]_vars

SpecSync == InitAll /\ [][NextSync]_vars

SpecBulk == InitAll /\ [][NextBulk]_vars /\ FairBulk

SpecMonitor == InitAll /\ [][NextMonitor]_vars

SpecProtocol == InitAll /\ [][NextProtocol]_vars

SpecRequests == InitAll /\ [][NextRequests]_vars /\ FairRequests

SpecHub == InitAll /\ [][NextHub]_vars

InitL ==
    /\ InitAll

NextLimiter ==
    \/ Execute
    \/ \E c \in TaskIds : WakeMin(c)
    \/ \E c \in TaskIds : FnSettle(c)
    \/ \E c \in TaskIds : WakeBackoff(c)
    \/ \E r \in TaskIds : LoopResume(r)
    \/ Tick

SpecLimiter == InitL /\ [][NextLimiter]_vars

\* the timers fire and the continuations run; nothing makes the upstream
\* function of a task settle
FairLimiter ==
    /\ WF_vars(Tick)
    /\ \A c \in TaskIds : WF_vars(WakeMin(c))
    /\ \A c \in TaskIds : WF_vars(WakeBackoff(c))
    /\ \A r \in TaskIds : WF_vars(LoopResume(r))

SpecLimiterFair == SpecLimiter /\ FairLimiter

\* number of calls of execute in a run in which every function settles
MaxLiveCalls == 2

\* a caller calls rateLimiter.execute(fn) in such a run
ExecuteLive ==
    /\ rl.n < MaxLiveCalls
    /\ Execute

NextLimiterLive ==
    \/ ExecuteLive
    \/ \E c \in TaskIds : WakeMin(c)
    \/ \E c \in TaskIds : FnSettle(c)
    \/ \E c \in TaskIds : WakeBackoff(c)
    \/ \E r \in TaskIds : LoopResume(r)
    \/ Tick

\* the timers fire, the continuations run and every submitted function
\* settles
SpecLimiterLive ==
    /\ InitL
    /\ [][NextLimiterLive]_vars
    /\ FairLimiter
    /\ \A c \in TaskIds : WF_vars(FnSettle(c))

\* ------------------------------------------------------------------------
\* Properties of broadcastToClients
\* ------------------------------------------------------------------------
\* C8: a broadcast over registered connections some of whose send throws
\* still attempts delivery to every registered connection, reports the
\* number of successful deliveries, and leaves registered exactly the
\* connections that received the event.
C8_BroadcastResilience ==
    (bc.called /\ bc.failing # {}) =>
        /\ bc.attempted = bc.open
        /\ bc.delivered = bc.open \ bc.failing
        /\ bc.logged
        /\ bc.clientCount = Cardinality(bc.delivered)
        /\ SeqToSet(bc.after) = bc.delivered

\* C22: a broadcast sends the event to every registered connection that
\* is OPEN, leaves registered exactly those, and returns to its caller
\* without an exception.
C22_DeadConnectionsDropped ==
    bc.called =>
        /\ bc.attempted = bc.open
        /\ bc.delivered = bc.open
        /\ SeqToSet(bc.after) = bc.open
        /\ ~bc.thrown

\* ------------------------------------------------------------------------
\* Properties of the message handler
\* ------------------------------------------------------------------------
\* connection c stays as it is: neither closed nor unregistered
Untouched(c) ==
    /\ ws'[c] = ws[c]
    /\ (c \in SeqToSet(conns)) = (c \in SeqToSet(conns'))

\* the server sends exactly one message to c, of the given type
SendsOne(c, type) ==
    /\ Len(proto'.client[c].sent) = 1
    /\ proto'.client[c].sent[1].type = type
    /\ proto'.client[c].sent[1].timestamp

\* C15: on a connection whose send works, {type: ping} is answered with
\* exactly one pong carrying a timestamp and a message of an unrecognized
\* type with one error that lists the supported types; the connection is
\* neither closed nor unregistered.
C15_PingAndUnknownType ==
    [][\A c \in ConnIds, raw \in RawMessages :
          (Receive(c, raw) /\ raw.json = "object" /\ ~ws[c].sendFails) =>
              /\ raw.type = "ping" => SendsOne(c, "pong") /\ Untouched(c)
              /\ raw.type \notin SupportedTypes =>
                     /\ SendsOne(c, "error")
                     /\ proto'.client[c].sent[1].lists = SupportedTypes
                     /\ Untouched(c)]_vars

\* the last message sent to an open, registered connection is a pong
C15_Witness ==
    \E c \in ConnIds :
        /\ proto.client[c].sent = <<Reply("pong", "")>>
        /\ c \in SeqToSet(conns)
        /\ ws[c].readyState = "OPEN"

\* the text is not the envelope the handler expects: not JSON, not an
\* object, or an object with no type
Malformed(raw) == raw.json # "object" \/ raw.type = "undefined"

SuccessType(kind) ==
    IF kind = "start_monitoring" THEN "monitoring_started"
    ELSE IF kind = "stop_monitoring" THEN "monitoring_stopped"
    ELSE IF kind = "request_activity" THEN "wallet_activity"
    ELSE "recent_transactions"

\* the send of some connection throws
SomeSendBroken == \E c \in ConnIds : ws[c].sendFails

\* connection c can take a reply
Reachable(c) == ws[c].readyState = "OPEN" /\ ~ws[c].sendFails

\* C17: every request whose reply comes after an await is answered on the
\* connection that made it, with the success type of the request when the
\* operation returned and with an error when it threw, and the step that
\* answers leaves the connection open and registered; a request_activity
\* with no walletAddress is answered with an error at once.
C17_RequestsAnswered ==
    /\ [][\A c \in ConnIds :
            /\ \A kind \in AsyncTypes, ok \in BOOLEAN :
                   (DataResume(c, kind, ok) /\ Reachable(c)) =>
                       /\ SendsOne(c, IF ok THEN SuccessType(kind)
                                      ELSE "error")
                       /\ Untouched(c)
            /\ \A o \in OpIds :
                   (CallerResumes(o) /\ op[o].requester = c /\ Reachable(c)) =>
                       /\ SendsOne(c, IF op[o].outcome = "returned"
                                      THEN SuccessType(requestOf(o))
                                      ELSE "error")
                       /\ Untouched(c)
            /\ \A raw \in Requests :
                   (/\ Receive(c, raw)
                    /\ Reachable(c)
                    /\ raw.type = "request_activity"
                    /\ ~raw.walletAddress) =>
                       SendsOne(c, "error") /\ Untouched(c)]_vars
    /\ \A c \in ConnIds, kind \in AsyncTypes :
           (kind \in proto.client[c].pending)
               ~> (kind \notin proto.client[c].pending \/ SomeSendBroken)

\* a start_monitoring request has been answered with an error on an open
\* connection and no request is pending
C17_Witness ==
    \E c \in ConnIds :
        /\ proto.client[c].sent = <<Reply("error", "Failed to start monitoring")>>
        /\ proto.client[c].pending = {}
        /\ c \in SeqToSet(conns)
        /\ ws[c].readyState = "OPEN"

\* ------------------------------------------------------------------------
\* Properties of the batch syncs
\* ------------------------------------------------------------------------
Worklist == 1..job.n

\* the number of worklist items in the chunks the run is done with: what
\* performBulkSync logs as its progress, i + batch.length
Processed ==
    IF job.pc = "delay" THEN job.i + Len(job.batch)
    ELSE IF job.pc \in {"awaitBatch", "done"} THEN Min(Max(job.i, 0), job.n)
    ELSE 0

\* C6: a run that returns has counted every wallet of its worklist exactly
\* once: succeeded + failed = length of the worklist, succeeded is the
\* number of wallets whose sync returned and failed the number of wallets
\* whose sync threw.
C6_SyncAccounting ==
    job.pc = "done" =>
        /\ job.successCount + job.failedCount = job.n
        /\ \A k \in Worklist : job.counted[k] = 1
        /\ \A k \in ItemIds \ Worklist : job.counted[k] = 0
        /\ job.successCount = Cardinality({k \in Worklist : job.item[k] = "ok"})
        /\ job.failedCount =
               Cardinality({k \in Worklist : job.item[k] = "failed"})

\* a run over several chunks has returned with successes and failures
C6_Witness ==
    /\ job.pc = "done"
    /\ job.n > job.batchSize
    /\ job.successCount >= 1
    /\ job.failedCount >= 2

\* C7: whenever a run is suspended, succeeded + failed = processed <= length
\* of the worklist, and processed never decreases during a run.
C7_CountsMatchProcessed ==
    /\ [](job.pc \in {"awaitBatch", "delay", "done"} =>
            /\ job.successCount + job.failedCount = Processed
            /\ Processed <= job.n
            /\ Processed =
                   Cardinality({k \in Worklist : job.counted[k] >= 1}))
    /\ [][(job.pc \in {"awaitBatch", "delay"}
             /\ job'.pc \in {"awaitBatch", "delay", "done"})
            => Processed' >= Processed]_vars

\* a run is suspended between two chunks with failures counted
C7_Witness ==
    /\ job.pc = "delay"
    /\ job.failedCount >= 1
    /\ job.successCount >= 1
    /\ Processed < job.n

\* the wallets whose sync is in flight in job j
InFlight(j) == {k \in ItemIds : j.item[k] = "running"}

\* the wallets whose sync starts in this step
Starting == InFlight(job') \ (IF job'.i = job.i /\ job'.kind = job.kind
                                 /\ job.pc = "awaitBatch"
                              THEN InFlight(job) ELSE {})

\* C23: the chunks of a run are processed one after another in worklist
\* order: syncs start only when none is in flight, the syncs that start
\* are those of the whole next chunk (wallets i+1 .. i+batchSize of the
\* worklist) and they start together, every wallet before the chunk has
\* completed and none after it has started, and at most batchSize syncs
\* are in flight.
C23_ChunksInOrder ==
    [][/\ Cardinality(InFlight(job')) <= job'.batchSize
       /\ \A k \in InFlight(job') :
              /\ k > job'.i /\ k <= job'.i + job'.batchSize /\ k <= job'.n
              /\ \A m \in 1..job'.n :
                     /\ m <= job'.i => job'.item[m] \in {"ok", "failed"}
                     /\ m > job'.i + job'.batchSize => job'.item[m] = "todo"
       /\ Starting # {} =>
              /\ job.pc # "awaitBatch"
              /\ Starting =
                     {k \in 1..job'.n :
                         k > job'.i /\ k <= job'.i + job'.batchSize}]_vars

\* the second chunk of a run is in flight with two syncs, after a first
\* chunk in which a sync failed
C23_Witness ==
    /\ job.pc = "awaitBatch"
    /\ job.i >= 2
    /\ Cardinality(InFlight(job)) >= 2
    /\ \E m \in 1..job.i : job.item[m] = "failed"

\* C26: a bulk sync that has started reaches its completion step, for every
\* worklist that is not empty and every batchSize.
C26_BulkSyncTerminates ==
    (job.kind = "bulk" /\ job.pc # "done") ~> (job.pc = "done")

\* Stop Sync was clicked during a chunk of the run with wallets still to
\* dispatch
CancelledMidRun == job.stopAt >= 0 /\ job.stopAt < job.n

\* C13: after Stop Sync is clicked during a chunk, the run dispatches no
\* further chunk, and it returns with succeeded + failed = the number of
\* wallets whose sync had been started, which is less than the length of
\* the worklist.
C13_CancelStopsDispatch ==
    /\ [][CancelledMidRun => ~(job.pc # "awaitBatch" /\ job'.pc = "awaitBatch")]_vars
    /\ []((CancelledMidRun /\ job.pc = "done") =>
             /\ job.successCount + job.failedCount = job.stopAt
             /\ job.successCount + job.failedCount < job.n)

\* C20: a finished run of syncAllWalletTransactions or performBulkSync has
\* had exactly one sync_completed broadcast, the last broadcast made, and
\* a run that has not finished has had none.
C20_SyncCompletedOnce ==
    job.kind \in {"syncAll", "bulk"} =>
        /\ job.pc = "done" =>
               /\ job.announced = 1
               /\ bc.called /\ bc.type = "sync_completed"
        /\ job.pc # "done" => job.announced = 0

\* ------------------------------------------------------------------------
\* Properties of syncWalletTransactionsEnhanced
\* ------------------------------------------------------------------------
\* C14: once the signatures are fetched, onProgress has been called once
\* after each item the loop has completed, whether the item succeeded or
\* failed, and current increases from each call to the next.
C14_ProgressPerItem ==
    enh.pc \in {"loop", "done"} /\ enh.progress # <<>> =>
        /\ Len(enh.progress) = 1 + enh.i
        /\ \A x \in 1..(Len(enh.progress) - 1) :
               enh.progress[x][1] < enh.progress[x + 1][1]

\* ------------------------------------------------------------------------
\* Properties of the RealTimeMonitor
\* ------------------------------------------------------------------------
\* the step in which startMonitoring call o runs from the return of
\* getAllWallets to its end
StartBodyRuns(o) ==
    /\ op[o].pc = "getAllWallets"
    /\ op'[o].pc = "settled"
    /\ op'[o].thrownBy # "getAllWallets"

\* the step in which stopMonitoring call o ends
StopEnds(o) ==
    /\ op[o].kind \in {"none", "stop"}
    /\ op[o].pc # "settled"
    /\ op'[o].kind = "stop"
    /\ op'[o].pc = "settled"

\* wallet w has an entry in the map m whose listener is open in up
Watched(w, m, up) ==
    \E i \in 1..Len(m) :
        m[i].wallet = w /\ [id |-> m[i].id, wallet |-> w] \in up

\* C9: a startMonitoring call over wallets that are all in the registry
\* already changes nothing: the map keeps one entry per wallet with the
\* handle it had, the count is unchanged and no upstream subscription is
\* opened; and a stopMonitoring call leaves the count at 0.
C9_IdempotentWatch ==
    [][\A o \in OpIds :
          /\ (/\ StartBodyRuns(o)
              /\ op'[o].wallets # {}
              /\ op'[o].failed = {}
              /\ op'[o].wallets \subseteq keys(mon.subscriptions))
                 => /\ mon'.subscriptions = mon.subscriptions
                    /\ upstream' = upstream
          /\ StopEnds(o) => Len(mon'.subscriptions) = 0]_vars

\* the subscription ids stored in the map m
ids(m) == {m[i].id : i \in 1..Len(m)}

\* C11: when a stopMonitoring call ends, an unsubscription has been
\* attempted for every watch the registry held, the call has not thrown
\* because an unsubscription failed, and the registry is empty:
\* walletsCount = 0 and isMonitoring = FALSE.
C11_StopBestEffort ==
    [][\A o \in OpIds :
          StopEnds(o) =>
              /\ ids(mon.subscriptions) \subseteq tried
              /\ op'[o].outcome = "threw" => op'[o].thrownBy = "broadcast"
              /\ getStatus(mon') = [isMonitoring |-> FALSE, walletsCount |-> 0]]_vars

\* a step of a stopMonitoring call
StopSteps == \E o \in OpIds : op'[o].kind = "stop" /\ op'[o] # op[o]

\* C19: a step of stopMonitoring closes no connection, and every connection
\* that is registered and OPEN before it is registered and OPEN after it.
C19_StopLeavesConnections ==
    [][StopSteps =>
          /\ ws' = ws
          /\ \A c \in ConnIds :
                 (c \in SeqToSet(conns) /\ ws[c].readyState = "OPEN")
                     => c \in SeqToSet(conns')]_vars

\* a stopMonitoring call has ended and its monitoring_stopped broadcast
\* reached a connection, which is still registered and OPEN
C19_Witness ==
    /\ \E o \in OpIds : op[o].kind = "stop" /\ op[o].pc = "settled"
    /\ bc.type = "monitoring_stopped"
    /\ bc.delivered # {}
    /\ \A c \in bc.delivered :
           c \in SeqToSet(conns) /\ ws[c].readyState = "OPEN"
    /\ ~mon.isMonitoring

\* C12: whenever no startMonitoring or stopMonitoring call is in progress,
\* the open upstream account-change subscriptions are exactly the
\* subscriptions whose ids the map holds.
C12_RegistryMatchesUpstream ==
    (\A o \in OpIds : op[o].kind = "none") =>
        {u.id : u \in upstream} = ids(mon.subscriptions)

Attempted(c) == rl.task[c].pc = "inflight" \/ rl.task[c].outcomes # <<>>

Started(c) == rl.task[c].pc \in {"sleepMin", "inflight", "backoff"}

\* the outcomes with which the upstream signals a rate limit
RateLimitSignals == {ErrRateLimit}

AllRateLimited(c) ==
    /\ rl.task[c].outcomes # <<>>
    /\ \A i \in 1..Len(rl.task[c].outcomes) :
           rl.task[c].outcomes[i] \in RateLimitSignals

LastOutcome(c) == rl.task[c].outcomes[Len(rl.task[c].outcomes)]

\* C1: every dispatch of an upstream function, first attempt or retry, of
\* whichever caller, happens at least minInterval after the dispatch before
\* it.
C1_Pacing ==
    [][(rl'.dispatches = rl.dispatches + 1 /\ rl.dispatches >= 1)
         => rl.sinceDispatch >= minInterval]_vars

\* a task was dispatched right after a pacing sleep, with another queued
C1_Witness ==
    \E c \in TaskIds :
        /\ rl.task[c].pc = "inflight"
        /\ rl.sinceDispatch = 0
        /\ rl.dispatches >= 2
        /\ Len(rl.queue) >= 1

\* C2: a call whose function fails with a rate-limit error at every attempt
\* is attempted maxRetries + 1 = 4 times, sleeps 1000, 2000, 4000 ms between
\* the attempts, and is then rejected with the rate-limit error.
C2_BackoffBound ==
    \A c \in TaskIds :
        AllRateLimited(c) =>
            /\ Settled(rl, c) <=> Len(rl.task[c].outcomes) = maxRetries + 1
            /\ Len(rl.task[c].outcomes) = 4 =>
                   /\ rl.task[c].pc = "rejected"
                   /\ rl.task[c].result = LastOutcome(c)
                   /\ rl.task[c].backoffs = <<1000, 2000, 4000>>
            /\ rl.task[c].backoffs =
                   SubSeq(<<1000, 2000, 4000>>, 1, Len(rl.task[c].backoffs))

C2_Witness ==
    \E c \in TaskIds :
        /\ AllRateLimited(c)
        /\ rl.task[c].pc = "rejected"
        /\ Len(rl.task[c].outcomes) = 4

\* C3: an attempt that fails with an error that is not a rate-limit error
\* is the last one: the call is rejected with that error at once, no backoff
\* follows it, and when it is the first attempt the function ran once.
C3_NoRetryOnOtherErrors ==
    \A c \in TaskIds :
        (/\ rl.task[c].outcomes # <<>>
         /\ ~LastOutcome(c).ok
         /\ LastOutcome(c) \notin RateLimitSignals) =>
            /\ rl.task[c].pc = "rejected"
            /\ rl.task[c].result = LastOutcome(c)
            /\ Len(rl.task[c].backoffs) = Len(rl.task[c].outcomes) - 1
            /\ \A i \in 1..(Len(rl.task[c].outcomes) - 1) :
                   rl.task[c].outcomes[i] \in RateLimitSignals

\* a first attempt failed with a timeout while all retries were available
C3_Witness ==
    \E c \in TaskIds :
        /\ rl.task[c].pc = "rejected"
        /\ rl.task[c].outcomes = <<ErrTimeout>>
        /\ rl.task[c].retries = 0
        /\ rl.task[c].backoffs = <<>>

\* C4: calls are dispatched in the order execute enqueued them (task ids
\* are given in that order): when a call has been attempted, every call
\* enqueued before it has settled, retries included.
C4_FifoDispatch ==
    /\ \A a, b \in TaskIds :
           (a < b /\ (Attempted(b) \/ Started(b))) => Settled(rl, a)
    /\ \A i, j \in 1..Len(rl.queue) : i < j => rl.queue[i] < rl.queue[j]

\* an earlier call was retried, a later one is being attempted, a third waits
C4_Witness ==
    \E a, b \in TaskIds :
        /\ a < b
        /\ Len(rl.task[a].outcomes) >= 2
        /\ rl.task[b].pc = "inflight"
        /\ Len(rl.queue) >= 1

\* C18: every call submitted to execute eventually settles: when its
\* upstream function never completes, a deadline rejects it, and the calls
\* queued behind it are dispatched.
C18_Deadline ==
    \A c \in TaskIds : (c <= rl.n) ~> Settled(rl, c)

\* a call is in flight: executeWithRetry is sleeping or awaiting fn()
Busy == \E c \in TaskIds : rl.task[c].pc \in {"sleepMin", "inflight", "backoff"}

\* an invocation of processQueue is in its while loop
Looping == \E r \in TaskIds : rl.loop[r] # NotLooping

\* every call is eventually settled, and a settled call stays as it
\* settled: with the last outcome of its own function, resolved when that
\* outcome is a value and rejected when it is an error
SettlesOnce ==
    /\ \A c \in TaskIds : (c <= rl.n) ~> Settled(rl, c)
    /\ [][\A c \in TaskIds :
            /\ Settled(rl, c) => rl'.task[c] = rl.task[c]
            /\ (~Settled(rl, c) /\ Settled(rl', c)) =>
                   /\ rl.task[c].pc = "inflight"
                   /\ rl'.task[c].result
                          = rl'.task[c].outcomes[Len(rl'.task[c].outcomes)]
                   /\ (rl'.task[c].pc = "resolved") = rl'.task[c].result.ok]_vars

\* C25: when every submitted function settles, every call handed to
\* execute is dispatched and settles once with the outcome of its own
\* function, whatever the calls before it ended with, and processing is
\* false whenever the queue is empty and no call is in flight.
C25_NoLostWakeup ==
    /\ SettlesOnce
    /\ []((rl.queue = <<>> /\ ~Busy) => ~rl.processing)

\* C25 as the code has it: processing is true exactly while an invocation
\* of processQueue is in its loop, which includes the moment between the
\* settlement of the last call and the return of `await task()`; it is
\* false whenever the queue is empty, no call is in flight and the loop
\* has resumed.
C25_NoLostWakeupAmended ==
    /\ SettlesOnce
    /\ [](rl.processing = Looping)
    /\ []((rl.queue = <<>> /\ ~Busy /\ ~Looping) => ~rl.processing)

\* two calls have settled, the first rejected and the second resolved,
\* and the limiter is idle again
C25_Witness ==
    /\ rl.n = 2
    /\ \A c \in 1..2 : Settled(rl, c)
    /\ rl.task[1].pc = "rejected"
    /\ rl.task[2].pc = "resolved"
    /\ ~rl.processing
    /\ rl.queue = <<>>

\* C5: at most one submitted function is in flight, and at most one task
\* has been started and has not settled.
C5_OneInFlight ==
    /\ Cardinality({c \in TaskIds : rl.task[c].pc = "inflight"}) <= 1
    /\ Cardinality({c \in TaskIds : Started(c)}) <= 1

\* execute was called while the queue was being processed
C5_Witness ==
    /\ rl.processing
    /\ Len(rl.queue) >= 2
    /\ \E c \in TaskIds : rl.task[c].pc = "inflight"

\* ------------------------------------------------------------------------
\* Properties of SolanaService
\* ------------------------------------------------------------------------
\* C21: every upstream call is issued inside a dispatch of the limiter, and
\* no dispatch issues more than one upstream call.
C21_UpstreamThroughLimiter ==
    \A i \in 1..Len(gw.log) :
        /\ gw.log[i].dispatch # 0
        /\ \A j \in 1..Len(gw.log) :
               gw.log[j].dispatch = gw.log[i].dispatch => j = i

\* ------------------------------------------------------------------------
\* Properties of handleAccountChange
\* ------------------------------------------------------------------------
\* run h of handleAccountChange ends in its catch block
EndsCaught(h) ==
    /\ handler'[h].pc = "done"
    /\ handler'[h].logged
    /\ handler'[h].outcome = "returned"
    /\ ~handler'[h].published

\* C24: a run of handleAccountChange broadcasts wallet_activity only after
\* its sync has returned; when its sync or its query fails, the failure
\* is logged, nothing is broadcast, the run returns without an exception,
\* and the registry and the monitoring flag stay as they are in every
\* step of the run.
C24_ActivityAfterSync ==
    [][\A h \in HandlerIds :
          /\ (handler'[h].published /\ ~handler[h].published) =>
                 /\ handler[h].synced
                 /\ bc'.type = "wallet_activity"
                 /\ bc'.attempted = bc'.open
          /\ \A ok \in BOOLEAN :
                 (SyncSettles(h, ok) \/ QuerySettles(h, ok)) => mon' = mon
          /\ (SyncSettles(h, FALSE) \/ QuerySettles(h, FALSE)) =>
                 /\ EndsCaught(h)
                 /\ UNCHANGED <<bc, conns>>
          /\ SyncSettles(h, TRUE) =>
                 /\ handler'[h].pc = "query"
                 /\ UNCHANGED <<bc, conns>>]_vars

\* a run has broadcast wallet_activity to an open connection
C24_Witness ==
    \E h \in HandlerIds :
        /\ handler[h].pc = "done"
        /\ handler[h].published
        /\ handler[h].synced
        /\ bc.type = "wallet_activity"
        /\ bc.delivered # {}

\* C28: wallet_activity is broadcast only while monitoring is on. The
\* flag isMonitoring is false from the end of a stopMonitoring to the end
\* of the next startMonitoring, and before the first startMonitoring no
\* listener exists.
C28_QuietAfterStop ==
    [][\A h \in HandlerIds :
          (handler'[h].published /\ ~handler[h].published) =>
              mon.isMonitoring]_vars

\* ------------------------------------------------------------------------
\* Properties of storeTransaction
\* ------------------------------------------------------------------------
\* C27: the table holds at most one row per signature, and a call of
\* storeTransaction for a wallet that exists returns a row, whether it
\* created it or another call did.
C27_StoreIdempotent ==
    /\ \A sig \in Signatures : store.rows[sig] <= 1
    /\ \A k \in StoreCallIds :
           store.call[k].outcome = "threw" => store.call[k].thrownBy = "wallet"

\* ------------------------------------------------------------------------
\* Properties of the hook useWebSocket

\* C29: after disconnect() was called on the mounted component, and until
\* the component calls connect(), the hook creates no WebSocket and sets no
\* reconnect timeout; in particular the close event of the socket that
\* disconnect() closed schedules no reconnect.
C29_NoReconnectAfterDisconnect ==
    [][hook.quiet /\ hook'.quiet
          => /\ hook'.created = hook.created
             /\ hook'.pending \subseteq hook.pending]_vars

\* ------------------------------------------------------------------------
\* Properties of the shutdown

\* the stopMonitoring() gracefulShutdown called has completed
StopCompleted ==
    /\ shut.signal # "none"
    /\ \/ shut.graceful \in {"disconnect", "close", "done"}
       \/ op[shut.stopOp].pc = "settled"

\* C30: when the database has been disconnected, and when the process has
\* exited, the stopMonitoring() of the shutdown has completed; so the
\* watches are unsubscribed before the database is disconnected and before
\* the process exits.
C30_ShutdownInOrder ==
    (shut.db = "disconnected" \/ shut.exited) => StopCompleted

====
